---- MODULE Spec2Model ----
\* Verification model of the Research Thinking Agent (rta) pipeline:
\* the evidence validator, the stage orchestrator, the structured-output
\* protocol and the live retrieval engine.
EXTENDS Integers, Sequences, FiniteSets, TLC

\* ---------------------------------------------------------------------
\* Bounds of the model
\* ---------------------------------------------------------------------
MaxRefs == 2
MaxEvidence == 1
MaxClaims == 2
MaxGaps == 1

\* ---------------------------------------------------------------------
\* Shared helpers
\* ---------------------------------------------------------------------
SeqsUpTo(S, n) == UNION {[1..k -> S] : k \in 0..n}

RECURSIVE Concat(_)
Concat(ss) == IF ss = <<>> THEN <<>> ELSE Head(ss) \o Concat(Tail(ss))

Range(s) == {s[i] : i \in 1..Len(s)}

\* ---------------------------------------------------------------------
\* State
\* ---------------------------------------------------------------------
VARIABLES
    result,            \* validate_reasoning: the ReasoningResult under validation
    valid_paper_ids,   \* validate_reasoning: the set of known paper ids
    verdict,           \* validate_reasoning: Unset, or how the call ended
    pc,                \* run_pipeline / cli.main: position of the run
    started,           \* run_pipeline: the stages entered so far, in order
    stage_outcome,     \* run_pipeline: how each stage's try block ended
    files,             \* run_pipeline: the files of the output directory
    papers,            \* run_pipeline: paper ids retrieved by stage 2
    ret,               \* run_pipeline: Unset, the returned tuple, or the raise
    exit_code,         \* cli.main: Unset, or the process exit code
    op,                \* structured output: the operation being run
    n_papers,          \* run_reasoning_agent: len(papers)
    candidate_sizes,   \* run_reasoning_agent: the input sizes to try
    sizes_used,        \* run_reasoning_agent: len(subset) of each cycle begun
    size_idx,          \* run_reasoning_agent: index of the size being tried
    attempt,           \* repair loop: the attempt about to be made
    ppc,               \* structured output: "generate", "repair" or "done"
    cycle,             \* responses of the current generate+parse+repair cycle
    parses,            \* json.loads calls made in the current cycle
    requests,          \* generation requests issued by the operation so far
    fatal_at,          \* 0, or the request that first came back empty or failed
    pret,              \* structured output: "none", "value", "fallback", "raise"
    qtopic,            \* run_query_planning: the topic
    qplan,             \* run_query_planning: Unset, or the QueryPlan returned
    corpus,            \* retrieval: what each source holds for each query
    n_queries,         \* retrieval_live: len(queries)
    max_papers,        \* retrieval_live: cfg.max_papers
    per_query_limit,   \* retrieval_live: per_query_limit
    qi,                \* retrieval_live: 1-based position of the query loop
    rpc,               \* retrieval_live: "start", "s2", "arxiv", "returned", "raised"
    s2_disabled,       \* retrieval_live: s2_disabled
    s2_429_count,      \* retrieval_live: s2_429_count
    all_papers,        \* retrieval_live: all_papers
    warnings,          \* retrieval_live: warnings
    calls,             \* retrieval: the source calls made so far, with their outcome
    rresult,           \* retrieval_live: Unset, or the returned RetrievalResult
    now,               \* fetch layer: time.time(), in hours
    cache_ttl_hours,   \* fetch layer: cfg.cache_ttl_hours
    cache,             \* fetch layer: the file of each cache key
    last,              \* fetch layer: Unset, or what the last search call did
    lead,              \* extraction: commentary before the object
    fence_open,        \* extraction: opening fence before the object
    obj,               \* extraction: the JSON object of the text (or nothing)
    trail,             \* extraction: what follows the object
    extractor,         \* extraction: "none", or the extractor applied
    extracted,         \* extraction: Unset, or what the extractor gave
    run_dir,           \* artifacts: the file of each artifact name
    written,           \* artifacts: Unset, or what the last write did
    log_file,          \* event log: the lines of the run's log file
    log_calls,         \* event log: the log calls made so far, with how they ended
    caller,            \* event log: Unset, or how the last generation request ended
    second,            \* run directories: the wall clock, in seconds
    run_dirs,          \* run directories: the directory of each run so far
    artifacts_of,      \* run directories: per directory, the run whose artifacts it holds
    made,              \* paper ids: Unset, or what the last retrieval call made of its records
    epc,               \* reasoning engine: position in ReasoningEngine.run
    eattempt,          \* reasoning engine: the refinement loop's attempt
    gens,              \* reasoning engine: what each generate_structured call returned
    crits,             \* reasoning engine: each critique, the result it read and its feedback
    cfile,             \* shared cache: the text of one key's file, NoFile if there is none
    writers,           \* shared cache: each writing run's position, text and file offset
    cread,             \* shared cache: Unset, or what the last _cache_get returned
    eret,              \* reasoning engine: Unset, or which generation's result was returned
    env_sources,       \* shell session: the environment variable RTA_SOURCES
    shell_sources,     \* shell session: RTAShell.sources
    use_s2,            \* shell session: retrieval_live.use_s2, set at import
    use_arxiv,         \* shell session: retrieval_live.use_arxiv, set at import
    session,           \* shell session: one record per /run, with the sources called per query
    gmethod,           \* RealGeminiClient: the method called
    ginput,            \* RealGeminiClient: the kind of prompt or the schema of the call
    gattempts,         \* _smart_execute: how each attempt so far ended
    gret               \* RealGeminiClient: Unset, or what the method returned

valVars == <<result, valid_paper_ids, verdict>>
pipeVars == <<pc, started, stage_outcome, files, papers, ret, exit_code>>
protoVars == <<op, n_papers, candidate_sizes, sizes_used, size_idx, attempt, ppc,
               cycle, parses, requests, fatal_at, pret, qtopic, qplan>>
retrVars == <<corpus, n_queries, max_papers, per_query_limit, qi, rpc,
              s2_disabled, s2_429_count, all_papers, warnings, calls, rresult>>
fetchVars == <<now, cache_ttl_hours, cache, last>>
jsonVars == <<lead, fence_open, obj, trail, extractor, extracted>>
artVars == <<run_dir, written>>
logVars == <<log_file, log_calls, caller>>
runVars == <<second, run_dirs, artifacts_of>>
idVars == <<made>>
engVars == <<epc, eattempt, gens, crits, eret>>
ccVars == <<cfile, writers, cread>>
sessVars == <<env_sources, shell_sources, use_s2, use_arxiv, session>>
gemVars == <<gmethod, ginput, gattempts, gret>>
vars == <<valVars, pipeVars, protoVars, retrVars, fetchVars, jsonVars, artVars, logVars,
          runVars, idVars, engVars, ccVars, sessVars, gemVars>>

\* ---------------------------------------------------------------------
\* EvidenceValidator (validators/reasoning_validator.py, schemas/reasoning.py)
\* ---------------------------------------------------------------------
PaperIds == {"p1", "p2"}
ClusterIds == {"c1", "c2"}

\* ReasoningClaim: the id-bearing fields (evidence holds each Evidence.paper_id).
ReasoningClaim == [supporting_papers : SeqsUpTo(PaperIds, MaxRefs),
                   evidence : SeqsUpTo(PaperIds, MaxEvidence)]

\* ResearchGap: the id-bearing fields.
ResearchGap == [supporting_papers : SeqsUpTo(PaperIds, MaxRefs),
                related_clusters : SeqsUpTo(ClusterIds, MaxEvidence)]

\* ReasoningResult: clusters holds each Cluster.cluster_id (a list, so an
\* id may occur twice).
ReasoningResult == [clusters : {<<>>, <<"c1">>, <<"c1", "c2">>, <<"c1", "c1">>},
                    claims : SeqsUpTo(ReasoningClaim, MaxClaims),
                    research_gaps : SeqsUpTo(ResearchGap, MaxGaps)]

Unset == [unset |-> TRUE]
Ok == [ok |-> TRUE]
Raise(kind, id) == [ok |-> FALSE, kind |-> kind, id |-> id]

\* for x in ids: if x not in known: raise ValueError(... x)
RECURSIVE ScanIds(_, _, _)
ScanIds(ids, known, kind) ==
    IF ids = <<>> THEN Ok
    ELSE IF Head(ids) \notin known THEN Raise(kind, Head(ids))
    ELSE ScanIds(Tail(ids), known, kind)

\* Body of the loop over result.claims, with the evidence loop left out.
ValidateClaimNoEvidence(cl, valid) ==
    ScanIds(cl.supporting_papers, valid, "claim_paper")

\* Body of the loop over result.claims.
ValidateClaim(cl, valid) ==
    LET r == ScanIds(cl.supporting_papers, valid, "claim_paper")
    IN  IF ~r.ok THEN r ELSE ScanIds(cl.evidence, valid, "evidence_paper")

\* Body of the loop over result.research_gaps.
ValidateGap(g, valid, cluster_ids) ==
    LET r == ScanIds(g.supporting_papers, valid, "gap_paper")
    IN  IF ~r.ok THEN r ELSE ScanIds(g.related_clusters, cluster_ids, "gap_cluster")

RECURSIVE ValidateClaims(_, _)
ValidateClaims(cls, valid) ==
    IF cls = <<>> THEN Ok
    ELSE LET r == ValidateClaim(Head(cls), valid)
         IN  IF ~r.ok THEN r ELSE ValidateClaims(Tail(cls), valid)

RECURSIVE ValidateGaps(_, _, _)
ValidateGaps(gs, valid, cluster_ids) ==
    IF gs = <<>> THEN Ok
    ELSE LET r == ValidateGap(Head(gs), valid, cluster_ids)
         IN  IF ~r.ok THEN r ELSE ValidateGaps(Tail(gs), valid, cluster_ids)

validate_reasoning(res, valid) ==
    LET cluster_ids == Range(res.clusters)
        r == ValidateClaims(res.claims, valid)
    IN  IF ~r.ok THEN r ELSE ValidateGaps(res.research_gaps, valid, cluster_ids)

ValInit ==
    /\ result \in ReasoningResult
    /\ valid_paper_ids \in {{}, {"p1"}, {"p1", "p2"}}
    /\ verdict = Unset

ValIdle ==
    /\ result = [clusters |-> <<>>, claims |-> <<>>, research_gaps |-> <<>>]
    /\ valid_paper_ids = {}
    /\ verdict = Unset

Validate ==
    /\ verdict = Unset
    /\ verdict' = validate_reasoning(result, valid_paper_ids)
    /\ UNCHANGED <<result, valid_paper_ids>>
    /\ UNCHANGED <<pipeVars, protoVars, retrVars, fetchVars, jsonVars, artVars, logVars, runVars, idVars, engVars, ccVars, sessVars, gemVars>>

ValNext == Validate

\* The references of a result in traversal order, each with the set it must
\* belong to: claims in list order (supporting_papers, then evidence), then
\* gaps in list order (supporting_papers, then related_clusters).
RefsOf(res, valid) ==
    LET tag(ids, known) == [i \in 1..Len(ids) |-> [id |-> ids[i], good |-> ids[i] \in known]]
        cids == Range(res.clusters)
        ofClaim(cl) == tag(cl.supporting_papers, valid) \o tag(cl.evidence, valid)
        ofGap(g) == tag(g.supporting_papers, valid) \o tag(g.related_clusters, cids)
    IN  Concat([i \in 1..Len(res.claims) |-> ofClaim(res.claims[i])])
        \o Concat([i \in 1..Len(res.research_gaps) |-> ofGap(res.research_gaps[i])])

BadRefs(res, valid) ==
    {i \in 1..Len(RefsOf(res, valid)) : ~RefsOf(res, valid)[i].good}

FirstBadRef(res, valid) ==
    RefsOf(res, valid)[CHOOSE i \in BadRefs(res, valid) :
                          \A j \in BadRefs(res, valid) : i <= j]

\* C2: validate_reasoning returns normally iff every paper reference of every
\* claim and gap is in valid_paper_ids and every related cluster is a cluster
\* of the result; otherwise the error names the first offending id in
\* traversal order.
C2_ValidateIffAllRefsKnown ==
    verdict # Unset =>
        /\ verdict.ok <=> BadRefs(result, valid_paper_ids) = {}
        /\ ~verdict.ok => verdict.id = FirstBadRef(result, valid_paper_ids).id

\* A call that raised on a later reference after passing an earlier valid one,
\* with a second unknown id further on.
C2_Witness ==
    /\ verdict # Unset
    /\ ~verdict.ok
    /\ LET bad == BadRefs(result, valid_paper_ids)
       IN  /\ Cardinality(bad) >= 2
           /\ 1 \notin bad
           /\ \E i \in bad : RefsOf(result, valid_paper_ids)[i].id # verdict.id
\* ---------------------------------------------------------------------
\* StageOrchestrator (pipeline.py) and the run-once CLI (cli.py)
\* ---------------------------------------------------------------------
Stages == <<"Plan", "Retrieve", "Cluster", "Reason">>

FileNames == {"plan.json", "retrieval.json", "structuring.json",
              "reasoning.json", "report.md", "status.json"}

Absent == [present |-> FALSE]
Written(c) == [present |-> TRUE, whole |-> TRUE, content |-> c]
Partial == [present |-> TRUE, whole |-> FALSE]

\* How one write to disk can end.
IoOutcomes == {"ok", "open_failed", "write_failed"}

\* _save_json: open(path, "w") then json.dump; any exception is logged and
\* swallowed. A failed open leaves the file as it was, a failed dump leaves
\* the truncated file.
_save_json(fs, name, content, io) ==
    CASE io = "ok" -> [fs EXCEPT ![name] = Written(content)]
      [] io = "open_failed" -> fs
      [] io = "write_failed" -> [fs EXCEPT ![name] = Partial]

Returned(success, dir) == [raised |-> FALSE, success |-> success, dir |-> dir]
Raised == [raised |-> TRUE]

\* A failure path that removes what the run wrote so far.
RolledBack(fs) == [f \in DOMAIN fs |-> Absent]

\* The files after the failure path of a stage (`logger.error(...)` and
\* `return False, ""`): it touches none.
LeftOnFailure(fs) == fs

\* A failed stage that is started over instead of ending the run.
StartOver(stage) ==
    /\ stage_outcome' = [stage_outcome EXCEPT ![stage] = "fail"]
    /\ ret' = ret
    /\ pc' = "stage1"

\* `return False, ""` of a failed stage.
Abort(stage) ==
    /\ stage_outcome' = [stage_outcome EXCEPT ![stage] = "fail"]
    /\ ret' = Returned(FALSE, "")
    /\ pc' = "returned"

\* What the generation client can hand back to stage 4 as the final report:
\* schema-valid results citing any ids, among them the MockGeminiClient
\* fallback (one cluster, one claim citing "p1", one gap on that cluster).
MockReasoning ==
    [clusters |-> <<"c1">>,
     claims |-> <<[supporting_papers |-> <<"p1">>, evidence |-> <<>>]>>,
     research_gaps |-> <<[supporting_papers |-> <<>>, related_clusters |-> <<"c1">>]>>]

ReasoningOutputs ==
    [clusters : {<<"c1">>},
     claims : {<<>>} \cup
              {<<[supporting_papers |-> <<p>>, evidence |-> e]>> :
                   p \in PaperIds, e \in SeqsUpTo(PaperIds, 1)},
     research_gaps : {<<>>} \cup
              {<<[supporting_papers |-> <<>>, related_clusters |-> <<c>>]>> :
                   c \in ClusterIds}]

PipeInit ==
    /\ pc = "call"
    /\ started = <<>>
    /\ stage_outcome = [s \in Range(Stages) |-> "pending"]
    /\ files = [f \in FileNames |-> Absent]
    /\ papers = {}
    /\ ret = Unset
    /\ exit_code = Unset

\* run_pipeline up to stage 1: argument handling, makedirs, client creation.
Begin ==
    /\ pc = "call"
    /\ \E o \in {"ok", "mkdir_failed", "client_failed"} :
          CASE o = "ok" -> pc' = "stage1" /\ ret' = ret
            [] o = "mkdir_failed" -> pc' = "returned" /\ ret' = Returned(FALSE, "")
            [] o = "client_failed" -> pc' = "raised" /\ ret' = Raised
    /\ UNCHANGED <<started, stage_outcome, files, papers, exit_code>>
    /\ UNCHANGED <<valVars, protoVars, retrVars, fetchVars, jsonVars, artVars, logVars, runVars, idVars, engVars, ccVars, sessVars, gemVars>>

\* Stage 1: run_query_planning, save plan.json.
Stage1 ==
    /\ pc = "stage1"
    /\ started' = Append(started, "Plan")
    /\ \E o \in {"ok", "error"}, io \in IoOutcomes :
          IF o = "ok"
          THEN /\ files' = _save_json(files, "plan.json", [plan |-> TRUE], io)
               /\ stage_outcome' = [stage_outcome EXCEPT !["Plan"] = "ok"]
               /\ pc' = "stage2"
               /\ ret' = ret
          ELSE /\ Abort("Plan")
               /\ files' = LeftOnFailure(files)
    /\ UNCHANGED <<papers, exit_code>>
    /\ UNCHANGED <<valVars, protoVars, retrVars, fetchVars, jsonVars, artVars, logVars, runVars, idVars, engVars, ccVars, sessVars, gemVars>>

\* Stage 2 with the `return False, ""` on an empty paper list left out.
Stage2KeepGoing ==
    /\ pc = "stage2"
    /\ started' = Append(started, "Retrieve")
    /\ \E o \in {"ok", "error"}, ps \in SUBSET PaperIds, io \in IoOutcomes :
          IF o = "ok"
          THEN /\ papers' = ps
               /\ files' = _save_json(files, "retrieval.json", [papers |-> ps], io)
               /\ stage_outcome' = [stage_outcome EXCEPT
                                      !["Retrieve"] = IF ps = {} THEN "fail" ELSE "ok"]
               /\ pc' = "stage3"
               /\ ret' = ret
          ELSE /\ Abort("Retrieve")
               /\ UNCHANGED <<files, papers>>
    /\ UNCHANGED exit_code
    /\ UNCHANGED <<valVars, protoVars, retrVars, fetchVars, jsonVars, artVars, logVars, runVars, idVars, engVars, ccVars, sessVars, gemVars>>

\* Stage 2: run_retrieval, save retrieval.json, abort when no paper was found.
Stage2 ==
    /\ pc = "stage2"
    /\ started' = Append(started, "Retrieve")
    /\ \E o \in {"ok", "error"}, ps \in SUBSET PaperIds, io \in IoOutcomes :
          IF o = "ok"
          THEN /\ papers' = ps
               /\ IF ps = {}
                  THEN /\ files' = LeftOnFailure(_save_json(files, "retrieval.json",
                                                            [papers |-> ps], io))
                       /\ Abort("Retrieve")
                  ELSE /\ files' = _save_json(files, "retrieval.json", [papers |-> ps], io)
                       /\ stage_outcome' = [stage_outcome EXCEPT !["Retrieve"] = "ok"]
                       /\ pc' = "stage3"
                       /\ ret' = ret
          ELSE /\ Abort("Retrieve")
               /\ files' = LeftOnFailure(files)
               /\ UNCHANGED papers
    /\ UNCHANGED exit_code
    /\ UNCHANGED <<valVars, protoVars, retrVars, fetchVars, jsonVars, artVars, logVars, runVars, idVars, engVars, ccVars, sessVars, gemVars>>

\* Stage 3: TopicMiningService.execute, save structuring.json; a None result
\* or an exception aborts.
Stage3 ==
    /\ pc = "stage3"
    /\ started' = Append(started, "Cluster")
    /\ \E o \in {"ok", "none", "error"}, io \in IoOutcomes :
          IF o = "ok"
          THEN /\ files' = _save_json(files, "structuring.json", [clusters |-> TRUE], io)
               /\ stage_outcome' = [stage_outcome EXCEPT !["Cluster"] = "ok"]
               /\ pc' = "stage4"
               /\ ret' = ret
          ELSE /\ Abort("Cluster")
               /\ files' = LeftOnFailure(files)
    /\ UNCHANGED <<papers, exit_code>>
    /\ UNCHANGED <<valVars, protoVars, retrVars, fetchVars, jsonVars, artVars, logVars, runVars, idVars, engVars, ccVars, sessVars, gemVars>>

\* Stage 4: ReasoningEngine.run, save reasoning.json, write report.md, then
\* `return True, real_output_dir`.
Stage4 ==
    /\ pc = "stage4"
    /\ started' = Append(started, "Reason")
    /\ \E o \in {"ok", "error"}, r \in ReasoningOutputs, io \in IoOutcomes,
          md \in {"ok", "open_failed"} :
          IF o = "ok"
          THEN LET saved == _save_json(files, "reasoning.json", r, io)
               IN  IF md = "ok"
                   THEN /\ files' = [saved EXCEPT !["report.md"] = Written([report |-> TRUE])]
                        /\ stage_outcome' = [stage_outcome EXCEPT !["Reason"] = "ok"]
                        /\ ret' = Returned(TRUE, "outputs")
                        /\ pc' = "returned"
                   ELSE /\ files' = LeftOnFailure(saved)
                        /\ Abort("Reason")
          ELSE /\ Abort("Reason")
               /\ files' = LeftOnFailure(files)
    /\ UNCHANGED <<papers, exit_code>>
    /\ UNCHANGED <<valVars, protoVars, retrVars, fetchVars, jsonVars, artVars, logVars, runVars, idVars, engVars, ccVars, sessVars, gemVars>>

\* cli.main after run_pipeline: the returned tuple is unpacked and echoed as
\* "[OK] ..." whatever its first element is; only a raise ends with code 1.
CliMain ==
    /\ pc \in {"returned", "raised"}
    /\ exit_code' = IF ret.raised THEN [code |-> 1, reported |-> FALSE]
                    ELSE [code |-> 0, reported |-> TRUE]
    /\ pc' = "exited"
    /\ UNCHANGED <<started, stage_outcome, files, papers, ret>>
    /\ UNCHANGED <<valVars, protoVars, retrVars, fetchVars, jsonVars, artVars, logVars, runVars, idVars, engVars, ccVars, sessVars, gemVars>>

PipeNext == Begin \/ Stage1 \/ Stage2 \/ Stage3 \/ Stage4 \/ CliMain

\* init_status: the status document of a new run, every stage pending.
init_status(fs) ==
    [fs EXCEPT !["status.json"] =
        Written([stages |-> [s \in Range(Stages) |-> "pending"], error |-> <<>>])]

\* update_status: the status document rewritten from the run's RunStatus.
update_status(fs, stages, error) ==
    [fs EXCEPT !["status.json"] = Written([stages |-> stages, error |-> error])]

\* ---------------------------------------------------------------------
\* StructuredOutputProtocol (stages/reasoning_agent.py, agent_reply.py,
\* stages/query_plan_gemini.py, llm/gemini_client.py, utils/llm_client.py)
\* ---------------------------------------------------------------------
\* What the generation capability does with one request: text that parses
\* and validates, text that parses as JSON but fails the schema, non-empty
\* text that json.loads rejects, empty text, or a failed call (quota, auth).
Responses == {"valid", "mismatch", "unparsable", "empty", "error"}
Fatal == {"empty", "error"}

Operations == {"run_reasoning_agent", "build_agent_reply", "run_query_planning"}

\* Thresholds of run_reasoning_agent's candidate sizes.
SIZE_LARGE == 80
SIZE_MEDIUM == 40
SIZE_SMALL == 20

Min(a, b) == IF a <= b THEN a ELSE b

\* candidate_sizes of run_reasoning_agent for n papers.
CandidateSizes(n) ==
    IF n <= SIZE_SMALL THEN <<n>>
    ELSE <<Min(n, SIZE_LARGE), Min(n, SIZE_MEDIUM), Min(n, SIZE_SMALL)>>

\* Numbers of papers handed to run_reasoning_agent.
PaperCounts == {0, 20, 21, 40, 41, 80, 81}

\* `for attempt in (1, 2)` of run_reasoning_agent, with a third attempt.
RA_REPAIRS_THREE == 3

\* `for attempt in (1, 2)` of run_reasoning_agent: repairs per input size.
RA_REPAIRS == 2

\* `for attempt in (2, 3)` of build_agent_reply: first and last attempt number.
AR_FIRST_REPAIR == 2
AR_LAST_REPAIR == 3

\* GeminiClient.generate_json: the stage gets the text, or the call raises
\* (generate_content failed, or "Gemini returned empty text").
generate_json(r) == IF r \in Fatal THEN "raise" ELSE r

\* RealGeminiClient.generate_text: a failed call is replaced by the
\* MockGeminiClient text ("Analysis unavailable ..."), which is no JSON; an
\* empty response.text is returned as "".
generate_text(r) == IF r = "error" THEN "unparsable" ELSE r

\* What generate_text can do for run_query_planning: the responses above,
\* text that parses to a falsy value ({}, [], null), text that parses to a
\* non-empty value that is no object, and a raise (a client without a
\* fallback of its own).
QP_Responses == Responses \cup {"falsy", "non_object", "raise"}

\* Topics handed to run_query_planning.
PlanTopics == {<<"r", "a", "g">>, <<"L", "L", "M", " ", "a", "g", "e", "n", "t", "s">>}

\* The plan MockGeminiClient.generate_structured builds for QueryPlan.
MockPlan(topic) ==
    [expanded_queries |-> <<<<"M", "o", "c", "k", " ", "Q", "u", "e", "r", "y", " ", "1">>,
                            <<"M", "o", "c", "k", " ", "Q", "u", "e", "r", "y", " ", "2">>>>,
     notes |-> "mock"]

\* The fallback plan of run_query_planning.
FallbackPlan(topic) ==
    [expanded_queries |-> <<topic,
                            topic \o <<" ", "s", "u", "r", "v", "e", "y">>,
                            topic \o <<" ", "m", "e", "t", "h", "o", "d", "o", "l", "o", "g", "y">>,
                            topic \o <<" ", "c", "h", "a", "l", "l", "e", "n", "g", "e", "s">>,
                            topic \o <<" ", "s", "t", "a", "t", "e", " ", "o", "f", " ", "t", "h", "e", " ", "a", "r", "t">>>>,
     notes |-> "fallback"]

\* A plan parsed from the completion and validated.
GeneratedPlan == [notes |-> "generated"]

ProtoInit ==
    /\ op \in Operations
    /\ n_papers \in IF op = "run_reasoning_agent" THEN PaperCounts ELSE {0}
    /\ candidate_sizes = IF op = "run_reasoning_agent" THEN CandidateSizes(n_papers) ELSE <<>>
    /\ sizes_used = <<>>
    /\ size_idx = 1
    /\ attempt = 0
    /\ ppc = "generate"
    /\ cycle = <<>>
    /\ parses = 0
    /\ requests = 0
    /\ fatal_at = 0
    /\ pret = "none"
    /\ qtopic \in IF op = "run_query_planning" THEN PlanTopics ELSE {<<>>}
    /\ qplan = Unset

ProtoIdle ==
    /\ op = "none"
    /\ n_papers = 0
    /\ candidate_sizes = <<>>
    /\ sizes_used = <<>>
    /\ size_idx = 1
    /\ attempt = 0
    /\ ppc = "done"
    /\ cycle = <<>>
    /\ parses = 0
    /\ requests = 0
    /\ fatal_at = 0
    /\ pret = "none"
    /\ qtopic = <<>>
    /\ qplan = Unset

\* One request goes out and r comes back.
Request(r) ==
    /\ requests' = requests + 1
    /\ fatal_at' = IF fatal_at = 0 /\ r \in Fatal THEN requests + 1 ELSE fatal_at

Finish(how) ==
    /\ ppc' = "done"
    /\ pret' = how

\* run_reasoning_agent: the initial request of one input size and the first
\* parse. generate_json is called outside any try.
RA_Generate ==
    /\ op = "run_reasoning_agent"
    /\ ppc = "generate"
    /\ \E r \in Responses :
          /\ Request(r)
          /\ cycle' = <<r>>
          /\ attempt' = 1
          /\ CASE generate_json(r) = "raise" ->
                    /\ Finish("raise")
                    /\ parses' = 0
               [] generate_json(r) = "valid" ->
                    /\ Finish("value")
                    /\ parses' = 1
               [] OTHER ->
                    /\ ppc' = "repair"
                    /\ pret' = pret
                    /\ parses' = 1
    /\ sizes_used' = Append(sizes_used, Min(candidate_sizes[size_idx], n_papers))
    /\ UNCHANGED <<op, n_papers, candidate_sizes, size_idx, qtopic, qplan>>
    /\ UNCHANGED <<valVars, pipeVars, retrVars, fetchVars, jsonVars, artVars, logVars, runVars, idVars, engVars, ccVars, sessVars, gemVars>>

\* run_reasoning_agent: one pass of the repair loop. The repair request, the
\* extraction and the validation are all inside `try ... except Exception`.
RA_Repair ==
    /\ op = "run_reasoning_agent"
    /\ ppc = "repair"
    /\ \E r \in Responses :
          /\ Request(r)
          /\ cycle' = Append(cycle, r)
          /\ parses' = IF generate_json(r) = "raise" THEN parses ELSE parses + 1
          /\ IF generate_json(r) = "valid"
             THEN /\ Finish("value")
                  /\ UNCHANGED <<attempt, size_idx>>
             ELSE IF attempt < RA_REPAIRS
             THEN /\ attempt' = attempt + 1
                  /\ UNCHANGED <<ppc, pret, size_idx>>
             ELSE IF size_idx < Len(candidate_sizes)
             THEN /\ size_idx' = size_idx + 1
                  /\ ppc' = "generate"
                  /\ UNCHANGED <<attempt, pret>>
             ELSE /\ Finish("raise")
                  /\ UNCHANGED <<attempt, size_idx>>
    /\ UNCHANGED <<op, n_papers, candidate_sizes, sizes_used, qtopic, qplan>>
    /\ UNCHANGED <<valVars, pipeVars, retrVars, fetchVars, jsonVars, artVars, logVars, runVars, idVars, engVars, ccVars, sessVars, gemVars>>

\* build_agent_reply: the initial request, the first json.loads and, when
\* that succeeds, AgentReply.model_validate.
AR_Generate ==
    /\ op = "build_agent_reply"
    /\ ppc = "generate"
    /\ \E r \in Responses :
          /\ Request(r)
          /\ cycle' = <<r>>
          /\ attempt' = AR_FIRST_REPAIR
          /\ CASE generate_json(r) = "raise" ->
                    /\ Finish("raise")
                    /\ parses' = 0
               [] generate_json(r) = "valid" ->
                    /\ Finish("value")
                    /\ parses' = 1
               [] generate_json(r) = "mismatch" ->
                    /\ Finish("raise")
                    /\ parses' = 1
               [] OTHER ->
                    /\ ppc' = "repair"
                    /\ pret' = pret
                    /\ parses' = 1
    /\ UNCHANGED <<op, n_papers, candidate_sizes, sizes_used, size_idx, qtopic, qplan>>
    /\ UNCHANGED <<valVars, pipeVars, retrVars, fetchVars, jsonVars, artVars, logVars, runVars, idVars, engVars, ccVars, sessVars, gemVars>>

\* build_agent_reply: one pass of `for attempt in (2, 3)`. The repair request
\* is outside the try; a parsed text leaves the loop and is validated.
AR_Repair ==
    /\ op = "build_agent_reply"
    /\ ppc = "repair"
    /\ \E r \in Responses :
          /\ Request(r)
          /\ cycle' = Append(cycle, r)
          /\ parses' = IF generate_json(r) = "raise" THEN parses ELSE parses + 1
          /\ CASE generate_json(r) = "raise" ->
                    /\ Finish("raise")
                    /\ attempt' = attempt
               [] generate_json(r) = "valid" ->
                    /\ Finish("value")
                    /\ attempt' = attempt
               [] generate_json(r) = "mismatch" ->
                    /\ Finish("raise")
                    /\ attempt' = attempt
               [] OTHER ->
                    IF attempt < AR_LAST_REPAIR
                    THEN /\ attempt' = attempt + 1
                         /\ UNCHANGED <<ppc, pret>>
                    ELSE /\ Finish("raise")
                         /\ attempt' = attempt
    /\ UNCHANGED <<op, n_papers, candidate_sizes, sizes_used, size_idx, qtopic, qplan>>
    /\ UNCHANGED <<valVars, pipeVars, retrVars, fetchVars, jsonVars, artVars, logVars, runVars, idVars, engVars, ccVars, sessVars, gemVars>>

\* run_query_planning: generate_text (a raise leaves raw_text empty), then
\* extraction and the first json.loads; an empty candidate, a falsy or
\* non-object value or a schema failure yields the fallback plan.
QP_Generate ==
    /\ op = "run_query_planning"
    /\ ppc = "generate"
    /\ \E r \in QP_Responses :
          LET text == IF r = "raise" THEN "empty" ELSE generate_text(r)
          IN  /\ Request(r)
              /\ cycle' = <<r>>
              /\ attempt' = 1
              /\ CASE text = "empty" ->
                        /\ Finish("fallback")
                        /\ qplan' = FallbackPlan(qtopic)
                        /\ parses' = 0
                   [] text = "valid" ->
                        /\ Finish("value")
                        /\ qplan' = GeneratedPlan
                        /\ parses' = 1
                   [] text \in {"mismatch", "falsy", "non_object"} ->
                        /\ Finish("fallback")
                        /\ qplan' = FallbackPlan(qtopic)
                        /\ parses' = 1
                   [] OTHER ->
                        /\ ppc' = "repair"
                        /\ pret' = pret
                        /\ qplan' = qplan
                        /\ parses' = 1
    /\ UNCHANGED <<op, n_papers, candidate_sizes, sizes_used, size_idx, qtopic>>
    /\ UNCHANGED <<valVars, pipeVars, retrVars, fetchVars, jsonVars, artVars, logVars, runVars, idVars, engVars, ccVars, sessVars, gemVars>>

\* run_query_planning: the single repair after a JSONDecodeError; a repair
\* request that raises hands the broken text back.
QP_Repair ==
    /\ op = "run_query_planning"
    /\ ppc = "repair"
    /\ \E r \in QP_Responses :
          LET text == IF r = "raise" THEN "unparsable" ELSE generate_text(r)
          IN  /\ Request(r)
              /\ cycle' = Append(cycle, r)
              /\ parses' = parses + 1
              /\ IF text = "valid"
                 THEN Finish("value") /\ qplan' = GeneratedPlan
                 ELSE Finish("fallback") /\ qplan' = FallbackPlan(qtopic)
    /\ UNCHANGED <<op, n_papers, candidate_sizes, sizes_used, size_idx, attempt, qtopic>>
    /\ UNCHANGED <<valVars, pipeVars, retrVars, fetchVars, jsonVars, artVars, logVars, runVars, idVars, engVars, ccVars, sessVars, gemVars>>

ProtoNext ==
    RA_Generate \/ RA_Repair \/ AR_Generate \/ AR_Repair \/ QP_Generate \/ QP_Repair

\* ---------------------------------------------------------------------
\* RetrievalEngine (stages/retrieval_live.py)
\* ---------------------------------------------------------------------
\* Titles are sequences of characters.
UpperCase == <<"A", "B", "C", "D", "E", "F", "G", "H", "I", "J", "K", "L", "M", "N", "O", "P", "Q", "R", "S", "T", "U", "V", "W", "X", "Y", "Z">>
LowerCase == <<"a", "b", "c", "d", "e", "f", "g", "h", "i", "j", "k", "l", "m", "n", "o", "p", "q", "r", "s", "t", "u", "v", "w", "x", "y", "z">>
Digits == <<"0", "1", "2", "3", "4", "5", "6", "7", "8", "9">>
Whitespace == {" ", "\n", "\t"}

\* str.lower() on one character.
Lower(c) ==
    IF \E i \in 1..Len(UpperCase) : UpperCase[i] = c
    THEN LowerCase[CHOOSE i \in 1..Len(UpperCase) : UpperCase[i] = c]
    ELSE c

RECURSIVE LStrip(_)
LStrip(t) == IF t # <<>> /\ Head(t) \in Whitespace THEN LStrip(Tail(t)) ELSE t

RECURSIVE RStrip(_)
RStrip(t) ==
    IF t # <<>> /\ t[Len(t)] \in Whitespace THEN RStrip(SubSeq(t, 1, Len(t) - 1)) ELSE t

\* str.strip()
Strip(t) == RStrip(LStrip(t))

\* re.sub(r"\s+", " ", t)
RECURSIVE CollapseWhitespace(_)
CollapseWhitespace(t) ==
    IF t = <<>> THEN <<>>
    ELSE IF Head(t) \in Whitespace
         THEN <<" ">> \o CollapseWhitespace(LStrip(t))
         ELSE <<Head(t)>> \o CollapseWhitespace(Tail(t))

\* The characters kept by re.sub(r"[^a-z0-9\s\-:]", "", t).
KeptChars == Range(LowerCase) \cup Range(Digits) \cup Whitespace \cup {"-", ":"}

_norm_title(t) ==
    LET lowered == [i \in 1..Len(Strip(t)) |-> Lower(Strip(t)[i])]
    IN  SelectSeq(CollapseWhitespace(lowered), LAMBDA c : c \in KeptChars)

\* Length of the common run of a from i and of b from j, within a[..ahi], b[..bhi].
RECURSIVE RunLength(_, _, _, _, _, _)
RunLength(a, i, ahi, b, j, bhi) ==
    IF i > ahi \/ j > bhi THEN 0
    ELSE IF a[i] # b[j] THEN 0
    ELSE 1 + RunLength(a, i + 1, ahi, b, j + 1, bhi)

\* SequenceMatcher.find_longest_match on a[alo..ahi], b[blo..bhi] (no junk):
\* the longest common block, the one starting earliest in a and, among
\* those, earliest in b. <<i, j, size>>.
find_longest_match(a, alo, ahi, b, blo, bhi) ==
    LET starts == (alo..ahi) \X (blo..bhi)
        size == [p \in starts |-> RunLength(a, p[1], ahi, b, p[2], bhi)]
        best == IF starts = {} THEN 0
                ELSE size[CHOOSE p \in starts : \A q \in starts : size[q] <= size[p]]
        longest == {p \in starts : size[p] = best}
        first == CHOOSE p \in longest :
                     \A q \in longest : p[1] < q[1] \/ (p[1] = q[1] /\ p[2] <= q[2])
    IN  IF best = 0 THEN <<alo, blo, 0>> ELSE <<first[1], first[2], best>>

\* Sum of the sizes of SequenceMatcher.get_matching_blocks: the longest
\* block, then recursively the pieces to its left and to its right.
RECURSIVE MatchedChars(_, _, _, _, _, _)
MatchedChars(a, alo, ahi, b, blo, bhi) ==
    IF alo > ahi \/ blo > bhi THEN 0
    ELSE LET m == find_longest_match(a, alo, ahi, b, blo, bhi)
         IN  IF m[3] = 0 THEN 0
             ELSE m[3] + MatchedChars(a, alo, m[1] - 1, b, blo, m[2] - 1)
                       + MatchedChars(a, m[1] + m[3], ahi, b, m[2] + m[3], bhi)

\* The dedup threshold 0.90, in percent.
DEDUP_PERCENT == 90

\* SequenceMatcher(None, a, b).ratio() >= pct / 100, where
\* ratio = 2.0 * matches / (len(a) + len(b)), and 1.0 for two empty strings.
RatioAtLeast(a, b, pct) ==
    IF Len(a) + Len(b) = 0 THEN TRUE
    ELSE 2 * MatchedChars(a, 1, Len(a), b, 1, Len(b)) * 100 >= pct * (Len(a) + Len(b))

\* _title_sim(a, b) >= 0.90
_title_sim_dup(a, b) == RatioAtLeast(_norm_title(a), _norm_title(b), DEDUP_PERCENT)

\* The titles the sources hold.
TitleA == <<"a", "a", "a", "a", "a", "b", "b", "a", "a", "b">>
TitleB == <<"a", "a", "a", "a", "a", "b", "a", "b", "a", "b">>
TitleC == <<" ", "A", "b", " ", " ", "c", "!">>
TitleD == <<"a", "b", " ", "c">>
TitleE == <<"x", "-", "y", ":", "Z", "9">>
TitlePool == {TitleA, TitleB, TitleC, TitleD, TitleE}

\* The pairs <<a, b>> of the title pool with _title_sim(a, b) >= 0.90.
DupPairs ==
    UNION { IF _title_sim_dup(p[1], p[2]) THEN {p} ELSE {} : p \in TitlePool \X TitlePool }

\* PaperItem.year when the year is unknown (None).
NoYear == -1

\* cfg.min_year and cfg.max_year (defaults of RTAConfig).
MIN_YEAR == 2020
MAX_YEAR == 2026

\* The records the sources hold: title, year, whether the abstract is
\* non-blank.
Paper(t, y, abs) == [title |-> t, year |-> y, abstract |-> abs]
PaperA == Paper(TitleA, MIN_YEAR, TRUE)
PaperB == Paper(TitleB, MAX_YEAR, TRUE)
PaperC == Paper(TitleC, MIN_YEAR - 1, FALSE)
PaperD == Paper(TitleD, NoYear, TRUE)
PaperE == Paper(TitleE, MAX_YEAR + 1, FALSE)
PaperF == Paper(TitleE, MAX_YEAR, FALSE)

\* A corpus: for each source, the hit list of the 1st, 2nd, ... query
\* (repeating from the start for later queries).
SparseCorpus ==
    [s2 |-> << <<PaperA>>, <<PaperC, PaperE>>, <<>> >>,
     arxiv |-> << <<PaperB>>, <<PaperD>>, <<PaperA>> >>]
Corpora ==
    { SparseCorpus,
      [s2 |-> << <<PaperB, PaperF>>, <<PaperA>>, <<PaperD>> >>,
       arxiv |-> << <<>>, <<PaperE, PaperD>>, <<PaperC>> >>],
      [s2 |-> << <<PaperF, PaperD, PaperC>>, <<PaperE>>, <<PaperB>> >>,
       arxiv |-> << <<PaperC, PaperA>>, <<PaperF, PaperB>>, <<>> >>] }

Hits(c, source, q) ==
    LET lists == IF source = "SemanticScholar" THEN c.s2 ELSE c.arxiv
    IN  [i \in 1..Len(lists[((q - 1) % Len(lists)) + 1]) |->
            [title |-> lists[((q - 1) % Len(lists)) + 1][i].title,
             year |-> lists[((q - 1) % Len(lists)) + 1][i].year,
             abstract |-> lists[((q - 1) % Len(lists)) + 1][i].abstract,
             source |-> source]]

\* Largest number of queries of a plan.
MaxQueries == 4

\* Values of cfg.max_papers: a budget the corpora can fill, and with the
\* sparse corpus no budget and one that leaves each query more than the
\* least per-query limit.
PaperBudgets == {0, 2, 30}
TightBudgets == {2}

\* per_query_limit = max(10, min(25, max_papers // max(1, n))), capped at 20.
PER_QUERY_MIN == 10
PER_QUERY_MAX == 25
PER_QUERY_CAP == 20
Max(a, b) == IF a >= b THEN a ELSE b
\* per_query_limit without the second line, the cap at 20.
PerQueryLimitUncapped(budget, n) ==
    Max(PER_QUERY_MIN, Min(PER_QUERY_MAX, budget \div Max(1, n)))
PerQueryLimit(budget, n) ==
    Min(Max(PER_QUERY_MIN, Min(PER_QUERY_MAX, budget \div Max(1, n))), PER_QUERY_CAP)

\* Rate-limited queries after which Semantic Scholar is disabled, plus one.
S2_429_LIMIT_FOUR == 4

\* `if s2_429_count >= 3`: rate-limited queries that disable Semantic Scholar.
S2_429_LIMIT == 3

\* The early stop with a factor of 5.
EARLY_STOP_FACTOR_FIVE == 5
\* Early stop: `len(all_papers) >= cfg.max_papers * 4`.
EARLY_STOP_FACTOR == 4
\* Cap of the accepted set: `len(uniq) >= cfg.max_papers * 2`.
UNIQ_FACTOR == 2

Warning(kind, source, q) == [kind |-> kind, source |-> source, q |-> q]

\* The dedup loop over all_papers: skip blank titles and near-duplicates of
\* an accepted record, stop when the accepted set reaches the cap.
RECURSIVE Dedup(_, _, _)
Dedup(rest, uniq, cap) ==
    IF rest = <<>> THEN uniq
    ELSE LET p == Head(rest)
         IN  IF Strip(p.title) = <<>> THEN Dedup(Tail(rest), uniq, cap)
             ELSE IF \E i \in 1..Len(uniq) : <<p.title, uniq[i].title>> \in DupPairs
             THEN Dedup(Tail(rest), uniq, cap)
             ELSE IF Len(uniq) + 1 >= cap THEN Append(uniq, p)
             ELSE Dedup(Tail(rest), Append(uniq, p), cap)

\* The year filter with exclusive bounds.
YearFilterExclusive(ps, lo, hi) ==
    SelectSeq(ps, LAMBDA p : ~(p.year # NoYear /\ (p.year <= lo \/ p.year >= hi)))

\* The year filter.
YearFilter(ps, lo, hi) ==
    SelectSeq(ps, LAMBDA p : ~(p.year # NoYear /\ (p.year < lo \/ p.year > hi)))

\* The filtered list left in the order of acceptance.
AcceptanceOrder(ps) == ps

\* filtered.sort(key=0 if abstract else 1): a stable sort on a two-valued key.
AbstractFirst(ps) ==
    SelectSeq(ps, LAMBDA p : p.abstract) \o SelectSeq(ps, LAMBDA p : ~p.abstract)

Truncate(ps, n) == SubSeq(ps, 1, Min(n, Len(ps)))

\* The return of retrieval_live, counting dedup_after before the year
\* filter and the truncation.
BuildResultCountingUniq(all, warns, budget, n) ==
    LET uniq == Dedup(all, <<>>, budget * UNIQ_FACTOR)
        filtered == Truncate(AbstractFirst(YearFilter(uniq, MIN_YEAR, MAX_YEAR)), budget)
    IN  [queries_used |-> n, papers |-> filtered, dedup_before |-> Len(all),
         dedup_after |-> Len(uniq), warnings |-> warns]

\* retrieval_live from `dedup_before = len(all_papers)` to the return.
BuildResult(all, warns, budget, n) ==
    LET uniq == Dedup(all, <<>>, budget * UNIQ_FACTOR)
        filtered == Truncate(AbstractFirst(YearFilter(uniq, MIN_YEAR, MAX_YEAR)), budget)
        missing_abs == Len(SelectSeq(filtered, LAMBDA p : ~p.abstract))
        final_warns == IF filtered # <<>> /\ missing_abs * 10 > 4 * Len(filtered)
                       THEN Append(warns, Warning("missing_abstracts", "none", 0))
                       ELSE warns
    IN  [queries_used |-> n, papers |-> filtered, dedup_before |-> Len(all),
         dedup_after |-> Len(filtered), warnings |-> final_warns]

RetrInit ==
    /\ corpus \in Corpora
    /\ n_queries \in 0..MaxQueries
    /\ max_papers \in PaperBudgets
    /\ max_papers \in TightBudgets \/ corpus = SparseCorpus
    /\ per_query_limit = 0
    /\ qi = 1
    /\ rpc = "start"
    /\ s2_disabled = FALSE
    /\ s2_429_count = 0
    /\ all_papers = <<>>
    /\ warnings = <<>>
    /\ calls = <<>>
    /\ rresult = Unset

RetrIdle ==
    /\ corpus = [s2 |-> <<>>, arxiv |-> <<>>]
    /\ n_queries = 0
    /\ max_papers = 0
    /\ per_query_limit = 0
    /\ qi = 1
    /\ rpc = "idle"
    /\ s2_disabled = FALSE
    /\ s2_429_count = 0
    /\ all_papers = <<>>
    /\ warnings = <<>>
    /\ calls = <<>>
    /\ rresult = Unset

\* The loop is left (no query remains, or the early stop): dedup, filter,
\* sort, truncate and return.
Return(all, warns) ==
    /\ rresult' = BuildResult(all, warns, max_papers, n_queries)
    /\ rpc' = "returned"

\* retrieval_live up to the query loop.
RetrStart ==
    /\ rpc = "start"
    /\ per_query_limit' = PerQueryLimit(max_papers, n_queries)
    /\ IF n_queries = 0
       THEN Return(all_papers, warnings)
       ELSE rpc' = "s2" /\ rresult' = rresult
    /\ UNCHANGED <<corpus, n_queries, max_papers, qi, s2_disabled, s2_429_count,
                   all_papers, warnings, calls>>
    /\ UNCHANGED <<valVars, pipeVars, protoVars, fetchVars, jsonVars, artVars, logVars, runVars, idVars, engVars, ccVars, sessVars, gemVars>>

\* The Semantic Scholar block of one query: skipped when disabled; else the
\* search succeeds, ends in HTTP 429, fails with another HTTPError or a
\* URLError, or raises something the block does not catch.
S2Step ==
    /\ rpc = "s2"
    /\ IF s2_disabled
       THEN /\ rpc' = "arxiv"
            /\ UNCHANGED <<s2_disabled, s2_429_count, all_papers, warnings, calls>>
       ELSE \E o \in {"ok", "rate_limited", "failed", "crash"} :
            /\ calls' = Append(calls, [source |-> "SemanticScholar", q |-> qi, outcome |-> o,
                                     limit |-> per_query_limit])
            /\ CASE o = "ok" ->
                      /\ all_papers' = all_papers \o Hits(corpus, "SemanticScholar", qi)
                      /\ rpc' = "arxiv"
                      /\ UNCHANGED <<s2_disabled, s2_429_count, warnings>>
                 [] o = "rate_limited" ->
                      /\ s2_429_count' = s2_429_count + 1
                      /\ s2_disabled' = (s2_429_count + 1 >= S2_429_LIMIT)
                      /\ warnings' =
                            IF s2_429_count + 1 >= S2_429_LIMIT
                            THEN warnings \o <<Warning("rate_limited", "SemanticScholar", qi),
                                               Warning("disabled", "SemanticScholar", 0)>>
                            ELSE Append(warnings, Warning("rate_limited", "SemanticScholar", qi))
                      /\ rpc' = "arxiv"
                      /\ UNCHANGED all_papers
                 [] o = "failed" ->
                      /\ warnings' = Append(warnings, Warning("failed", "SemanticScholar", qi))
                      /\ rpc' = "arxiv"
                      /\ UNCHANGED <<s2_disabled, s2_429_count, all_papers>>
                 [] o = "crash" ->
                      /\ rpc' = "raised"
                      /\ UNCHANGED <<s2_disabled, s2_429_count, all_papers, warnings>>
    /\ UNCHANGED <<corpus, n_queries, max_papers, per_query_limit, qi, rresult>>
    /\ UNCHANGED <<valVars, pipeVars, protoVars, fetchVars, jsonVars, artVars, logVars, runVars, idVars, engVars, ccVars, sessVars, gemVars>>

\* The arXiv block of one query and the end of the loop body: the search
\* succeeds, ends in HTTP 429, fails with another HTTPError, a URLError or a
\* ParseError (all of these caught alike), or raises something else; then
\* the early-stop test and the next query or the return.
ArxivStep ==
    /\ rpc = "arxiv"
    /\ \E o \in {"ok", "rate_limited", "failed", "crash"} :
          /\ calls' = Append(calls, [source |-> "arXiv", q |-> qi, outcome |-> o,
                                   limit |-> per_query_limit])
          /\ IF o = "crash"
             THEN /\ rpc' = "raised"
                  /\ UNCHANGED <<all_papers, warnings, qi, rresult>>
             ELSE LET all == IF o = "ok" THEN all_papers \o Hits(corpus, "arXiv", qi)
                             ELSE all_papers
                      warns == IF o = "ok" THEN warnings
                               ELSE Append(warnings, Warning("failed", "arXiv", qi))
                  IN  /\ all_papers' = all
                      /\ warnings' = warns
                      /\ IF Len(all) >= max_papers * EARLY_STOP_FACTOR \/ qi = n_queries
                         THEN /\ Return(all, warns)
                              /\ qi' = qi
                         ELSE /\ qi' = qi + 1
                              /\ rpc' = "s2"
                              /\ rresult' = rresult
    /\ UNCHANGED <<corpus, n_queries, max_papers, per_query_limit, s2_disabled, s2_429_count>>
    /\ UNCHANGED <<valVars, pipeVars, protoVars, fetchVars, jsonVars, artVars, logVars, runVars, idVars, engVars, ccVars, sessVars, gemVars>>

RetrNext == RetrStart \/ S2Step \/ ArxivStep

\* ---------------------------------------------------------------------
\* Fetch layer of the sources: cache and HTTP retries
\* (stages/retrieval_live.py)
\* ---------------------------------------------------------------------
\* Largest value of the clock.
MaxClock == 2

\* Values of cfg.cache_ttl_hours.
TtlHours == {0, 1, 2}

\* The cache keys: one request of each source.
CacheKeys == {"s2", "arxiv"}

NoFile == [file |-> "absent"]
CorruptFile == [file |-> "corrupt"]
Entry(ts, payload) == [file |-> "entry", ts |-> ts, payload |-> payload]

\* _cache_get: None (a miss) for a missing or unreadable file and for an
\* entry with time.time() - ts > ttl; else the payload.
Miss == [miss |-> TRUE]
_cache_get(store, key, t, ttl) ==
    IF store[key] = NoFile THEN Miss
    ELSE IF store[key] = CorruptFile THEN Miss
    ELSE IF (t - store[key].ts) > ttl THEN Miss
    ELSE [miss |-> FALSE, payload |-> store[key].payload]

\* _cache_put
_cache_put(store, key, t, payload) == [store EXCEPT ![key] = Entry(t, payload)]

\* Outcomes of one HTTP attempt.
AttemptOutcomes == {"ok", "rate_limited", "http_error", "url_error", "crash"}

\* `retries: int = 3` of _http_get_json_with_retry.
HTTP_RETRIES == 3

\* The backoff base: sleep_s = 2 ** (attempt - 1) + random.random().
BACKOFF_BASE == 2

\* _http_get_json_with_retry, the attempts ending as outs[1], outs[2], ...:
\* the attempts made, the backoff sleeps (without the jitter), the outcome.
RECURSIVE _http_get_json_with_retry(_, _, _, _)
_http_get_json_with_retry(outs, k, tried, sleeps) ==
    IF k > HTTP_RETRIES
    THEN [tried |-> tried, sleeps |-> sleeps, outcome |-> tried[Len(tried)]]
    ELSE LET o == outs[k]
         IN  IF o \in {"rate_limited", "url_error"}
             THEN _http_get_json_with_retry(outs, k + 1, Append(tried, o),
                                            Append(sleeps, BACKOFF_BASE ^ (k - 1)))
             ELSE [tried |-> Append(tried, o), sleeps |-> sleeps, outcome |-> o]

\* The ways the attempts of one call can end: nothing is drawn for the
\* attempts after the one that ends the call.
AttemptRuns ==
    {outs \in [1..HTTP_RETRIES -> AttemptOutcomes] :
        \A i \in 1..HTTP_RETRIES :
            (\E j \in 1..(i - 1) : outs[j] \notin {"rate_limited", "url_error"})
                => outs[i] = "ok"}

\* _http_get_text: one attempt.
_http_get_text(o) == [tried |-> <<o>>, sleeps |-> <<>>, outcome |-> o]

FetchInit ==
    /\ now = 0
    /\ cache_ttl_hours \in TtlHours
    /\ cache = [k \in CacheKeys |-> NoFile]
    /\ last = Unset

FetchIdle ==
    /\ now = 0
    /\ cache_ttl_hours = 0
    /\ cache = [k \in CacheKeys |-> NoFile]
    /\ last = Unset

\* Time passes.
Tick ==
    /\ now < MaxClock
    /\ now' = now + 1
    /\ UNCHANGED <<cache_ttl_hours, cache, last>>
    /\ UNCHANGED <<valVars, pipeVars, protoVars, retrVars, jsonVars, artVars, logVars, runVars, idVars, engVars, ccVars, sessVars, gemVars>>

\* A cache file is damaged from outside the program.
Damage ==
    /\ \E k \in CacheKeys :
          /\ cache[k] \notin {NoFile, CorruptFile}
          /\ cache' = [cache EXCEPT ![k] = CorruptFile]
    /\ UNCHANGED <<now, cache_ttl_hours, last>>
    /\ UNCHANGED <<valVars, pipeVars, protoVars, retrVars, jsonVars, artVars, logVars, runVars, idVars, engVars, ccVars, sessVars, gemVars>>

\* The search function with the cache write after every fetch, failed or not.
SearchCachingFailures(source, key, fetched) ==
    LET cached == _cache_get(cache, key, now, cache_ttl_hours)
    IN  /\ IF cached = Miss
           THEN cache' = _cache_put(cache, key, now, IF fetched.outcome = "ok" THEN now ELSE -1)
           ELSE cache' = cache
        /\ last' = [source |-> source, key |-> key, at |-> now, before |-> cache[key],
                    hit |-> cached # Miss,
                    tried |-> IF cached = Miss THEN fetched.tried ELSE <<>>,
                    sleeps |-> IF cached = Miss THEN fetched.sleeps ELSE <<>>,
                    outcome |-> IF cached = Miss THEN fetched.outcome ELSE "ok",
                    data |-> IF cached # Miss THEN cached.payload
                             ELSE IF fetched.outcome = "ok" THEN now ELSE -1]

\* The cache lookup, fetch and cache write of a search function.
Search(source, key, fetched) ==
    LET cached == _cache_get(cache, key, now, cache_ttl_hours)
    IN  /\ IF cached = Miss /\ fetched.outcome = "ok"
           THEN cache' = _cache_put(cache, key, now, now)
           ELSE cache' = cache
        /\ last' = [source |-> source, key |-> key, at |-> now, before |-> cache[key],
                    hit |-> cached # Miss,
                    tried |-> IF cached = Miss THEN fetched.tried ELSE <<>>,
                    sleeps |-> IF cached = Miss THEN fetched.sleeps ELSE <<>>,
                    outcome |-> IF cached = Miss THEN fetched.outcome ELSE "ok",
                    data |-> IF cached # Miss THEN cached.payload
                             ELSE IF fetched.outcome = "ok" THEN now ELSE -1]

\* _search_semantic_scholar up to `data`: cache, else fetch with retries.
S2Search ==
    /\ \E outs \in AttemptRuns :
          Search("SemanticScholar", "s2", _http_get_json_with_retry(outs, 1, <<>>, <<>>))
    /\ UNCHANGED <<now, cache_ttl_hours>>
    /\ UNCHANGED <<valVars, pipeVars, protoVars, retrVars, jsonVars, artVars, logVars, runVars, idVars, engVars, ccVars, sessVars, gemVars>>

\* _search_arxiv up to `xml_text`: cache, else one fetch.
ArxivSearch ==
    /\ \E o \in AttemptOutcomes : Search("arXiv", "arxiv", _http_get_text(o))
    /\ UNCHANGED <<now, cache_ttl_hours>>
    /\ UNCHANGED <<valVars, pipeVars, protoVars, retrVars, jsonVars, artVars, logVars, runVars, idVars, engVars, ccVars, sessVars, gemVars>>

FetchNext == Tick \/ Damage \/ S2Search \/ ArxivSearch

\* ---------------------------------------------------------------------
\* JSON extraction (utils/json_extract.py, stages/reasoning_agent.py,
\* stages/query_plan_gemini.py, agent_reply.py)
\* ---------------------------------------------------------------------
\* Texts are sequences of characters.
\* Stands for the backquote character.
Backquote == "backquote"
FENCE == <<Backquote, Backquote, Backquote>>
JSON_TAG == <<"j", "s", "o", "n">>

StartsWith(t, pre) == Len(t) >= Len(pre) /\ SubSeq(t, 1, Len(pre)) = pre
EndsWith(t, suf) == Len(t) >= Len(suf) /\ SubSeq(t, Len(t) - Len(suf) + 1, Len(t)) = suf
Drop(t, n) == SubSeq(t, n + 1, Len(t))
StartsWithAt(t, i, pre) == i + Len(pre) - 1 <= Len(t) /\ SubSeq(t, i, i + Len(pre) - 1) = pre

\* str.find / str.rfind of one character: its first / last index, 0 if none.
Find(t, c) ==
    IF \E i \in 1..Len(t) : t[i] = c
    THEN CHOOSE i \in 1..Len(t) : t[i] = c /\ \A j \in 1..(i - 1) : t[j] # c
    ELSE 0
RFind(t, c) ==
    IF \E i \in 1..Len(t) : t[i] = c
    THEN CHOOSE i \in 1..Len(t) : t[i] = c /\ \A j \in (i + 1)..Len(t) : t[j] # c
    ELSE 0

\* First index from i on that holds no whitespace (Len(t) + 1 if none).
RECURSIVE SkipWs(_, _)
SkipWs(t, i) == IF i <= Len(t) /\ t[i] \in Whitespace THEN SkipWs(t, i + 1) ELSE i

\* re.sub(r"^```(?:json)?\s*", "", t, flags=re.IGNORECASE) on a text that
\* starts with a fence.
RemoveJsonFenceOpen(t) ==
    LET rest == Drop(t, Len(FENCE))
        tag == SubSeq(rest, 1, Min(Len(JSON_TAG), Len(rest)))
    IN  IF [i \in 1..Len(tag) |-> Lower(tag[i])] = JSON_TAG
        THEN LStrip(Drop(rest, Len(JSON_TAG)))
        ELSE LStrip(rest)

\* The characters of [a-zA-Z0-9_-].
TagChars == Range(LowerCase) \cup Range(UpperCase) \cup Range(Digits) \cup {"_", "-"}

RECURSIVE DropTagChars(_)
DropTagChars(t) == IF t # <<>> /\ Head(t) \in TagChars THEN DropTagChars(Tail(t)) ELSE t

\* re.sub(r"^```[a-zA-Z0-9_-]*\s*", "", t) on a text that starts with a fence.
RemoveAnyFenceOpen(t) == LStrip(DropTagChars(Drop(t, Len(FENCE))))

\* re.sub(r"\s*```$", "", t)
RemoveFenceClose(t) ==
    IF EndsWith(t, FENCE) THEN RStrip(SubSeq(t, 1, Len(t) - Len(FENCE)))
    ELSE IF EndsWith(t, FENCE \o <<"\n">>)
    THEN RStrip(SubSeq(t, 1, Len(t) - Len(FENCE) - 1)) \o <<"\n">>
    ELSE t

\* The scan of _extract_first_complete_json_object with string literals
\* not tracked: every brace changes the depth.
RECURSIVE ScanCountingEveryBrace(_, _, _, _, _, _)
ScanCountingEveryBrace(t, start, i, depth, in_string, escape) ==
    IF i > Len(t) THEN Drop(t, start - 1)
    ELSE IF t[i] = "{"
    THEN ScanCountingEveryBrace(t, start, i + 1, depth + 1, FALSE, FALSE)
    ELSE IF t[i] = "}"
    THEN IF depth - 1 = 0 THEN SubSeq(t, start, i)
         ELSE ScanCountingEveryBrace(t, start, i + 1, depth - 1, FALSE, FALSE)
    ELSE ScanCountingEveryBrace(t, start, i + 1, depth, FALSE, FALSE)

\* The scan loop of _extract_first_complete_json_object from index i.
RECURSIVE Scan(_, _, _, _, _, _)
Scan(t, start, i, depth, in_string, escape) ==
    IF i > Len(t) THEN Drop(t, start - 1)
    ELSE IF in_string
    THEN IF escape THEN Scan(t, start, i + 1, depth, TRUE, FALSE)
         ELSE IF t[i] = "\\" THEN Scan(t, start, i + 1, depth, TRUE, TRUE)
         ELSE IF t[i] = "\"" THEN Scan(t, start, i + 1, depth, FALSE, FALSE)
         ELSE Scan(t, start, i + 1, depth, TRUE, FALSE)
    ELSE IF t[i] = "\"" THEN Scan(t, start, i + 1, depth, TRUE, FALSE)
    ELSE IF t[i] = "{" THEN Scan(t, start, i + 1, depth + 1, FALSE, FALSE)
    ELSE IF t[i] = "}"
    THEN IF depth - 1 = 0 THEN SubSeq(t, start, i)
         ELSE Scan(t, start, i + 1, depth - 1, FALSE, FALSE)
    ELSE Scan(t, start, i + 1, depth, FALSE, FALSE)

_extract_first_complete_json_object(text) ==
    LET t0 == Strip(text)
        t == IF StartsWith(t0, FENCE) THEN RemoveFenceClose(RemoveJsonFenceOpen(t0)) ELSE t0
        start == Find(t, "{")
    IN  IF start = 0 THEN t ELSE Scan(t, start, start, 0, FALSE, FALSE)

\* re.search(r"\{.*\}", t, flags=re.DOTALL): from the first "{" to the last
\* "}" after it; <<>> stands for no match (a match is never empty).
FirstToLastBrace(t) ==
    IF Find(t, "{") # 0 /\ RFind(t, "}") > Find(t, "{")
    THEN SubSeq(t, Find(t, "{"), RFind(t, "}"))
    ELSE <<>>

\* _extract_json_block of stages/query_plan_gemini.py
QP_extract_json_block(text) ==
    LET t0 == Strip(text)
        t == IF StartsWith(t0, FENCE) THEN RemoveFenceClose(RemoveJsonFenceOpen(t0)) ELSE t0
    IN  IF StartsWith(t, <<"{">>) /\ EndsWith(t, <<"}">>) THEN t
        ELSE IF FirstToLastBrace(t) # <<>> THEN FirstToLastBrace(t)
        ELSE t

\* _extract_json_block of agent_reply.py
AR_extract_json_block(text) ==
    LET t0 == Strip(text)
        t == IF StartsWith(t0, FENCE) THEN RemoveFenceClose(RemoveAnyFenceOpen(t0)) ELSE t0
    IN  IF FirstToLastBrace(t) # <<>> THEN Strip(FirstToLastBrace(t)) ELSE t

\* json.loads, on texts without commas, literals, signs, zeros, fractions
\* or \u escapes: a value is an object with at most one member, a string
\* or a number. A parse is [ok, pos, val]: pos is the index after the value
\* and val the value, written without insignificant whitespace.
ParseFail == [ok |-> FALSE, pos |-> 0, val |-> <<>>]
ValidEscapes == {"\"", "\\", "/", "b", "f", "n", "r", "t"}
NonZeroDigits == Range(Digits) \ {"0"}

RECURSIVE ParseStringFrom(_, _, _)
ParseStringFrom(t, open, j) ==
    IF j > Len(t) THEN ParseFail
    ELSE IF t[j] = "\\"
    THEN IF j + 1 <= Len(t) /\ t[j + 1] \in ValidEscapes
         THEN ParseStringFrom(t, open, j + 2) ELSE ParseFail
    ELSE IF t[j] = "\"" THEN [ok |-> TRUE, pos |-> j + 1, val |-> SubSeq(t, open, j)]
    ELSE IF t[j] \in {"\n", "\t"} THEN ParseFail
    ELSE ParseStringFrom(t, open, j + 1)

RECURSIVE ParseNumberFrom(_, _, _)
ParseNumberFrom(t, first, j) ==
    IF j <= Len(t) /\ t[j] \in NonZeroDigits THEN ParseNumberFrom(t, first, j + 1)
    ELSE [ok |-> TRUE, pos |-> j, val |-> SubSeq(t, first, j - 1)]

RECURSIVE ParseValue(_, _)
ParseValue(t, i) ==
    LET v == SkipWs(t, i)
    IN  IF v > Len(t) THEN ParseFail
        ELSE IF t[v] = "\"" THEN ParseStringFrom(t, v, v + 1)
        ELSE IF t[v] \in NonZeroDigits THEN ParseNumberFrom(t, v, v + 1)
        ELSE IF t[v] # "{" THEN ParseFail
        ELSE LET k == SkipWs(t, v + 1)
             IN  IF k > Len(t) THEN ParseFail
                 ELSE IF t[k] = "}" THEN [ok |-> TRUE, pos |-> k + 1, val |-> <<"{", "}">>]
                 ELSE IF t[k] # "\"" THEN ParseFail
                 ELSE LET key == ParseStringFrom(t, k, k + 1)
                          colon == IF key.ok THEN SkipWs(t, key.pos) ELSE 0
                      IN  IF ~key.ok \/ colon > Len(t) THEN ParseFail
                          ELSE IF t[colon] # ":" THEN ParseFail
                          ELSE LET member == ParseValue(t, colon + 1)
                                   close == IF member.ok THEN SkipWs(t, member.pos) ELSE 0
                               IN  IF ~member.ok \/ close > Len(t) THEN ParseFail
                                   ELSE IF t[close] # "}" THEN ParseFail
                                   ELSE [ok |-> TRUE, pos |-> close + 1,
                                         val |-> <<"{">> \o key.val \o <<":">>
                                                 \o member.val \o <<"}">>]

\* json.loads(t): the value, or an error (a ValueError).
JsonError == [ok |-> FALSE]
json_loads(t) ==
    LET r == ParseValue(t, 1)
    IN  IF r.ok /\ SkipWs(t, r.pos) > Len(t) THEN [ok |-> TRUE, val |-> r.val] ELSE JsonError

\* The group of _JSON_FENCE.search(t) for a match that starts at p (with
\* or without the json tag): from the "{" after the fence to the first "}"
\* that whitespace and a fence follow. <<>> if there is none.
FenceGroupAt(t, p, tagged) ==
    LET after == IF tagged THEN p + Len(FENCE) + Len(JSON_TAG) ELSE p + Len(FENCE)
        open == SkipWs(t, after)
        Closes(e) == t[e] = "}" /\ StartsWithAt(t, SkipWs(t, e + 1), FENCE)
    IN  IF ~StartsWithAt(t, p, FENCE) THEN <<>>
        ELSE IF tagged /\ ~StartsWithAt(t, p + Len(FENCE), JSON_TAG) THEN <<>>
        ELSE IF open > Len(t) THEN <<>>
        ELSE IF t[open] # "{" THEN <<>>
        ELSE IF \E e \in (open + 1)..Len(t) : Closes(e)
        THEN SubSeq(t, open, CHOOSE e \in (open + 1)..Len(t) :
                                 Closes(e) /\ \A f \in (open + 1)..(e - 1) : ~Closes(f))
        ELSE <<>>

\* _JSON_FENCE.search(t).group(1): the leftmost match, the tag taken when
\* it can be. <<>> if there is no match.
FenceGroup(t) ==
    LET Matches(p) == FenceGroupAt(t, p, TRUE) # <<>> \/ FenceGroupAt(t, p, FALSE) # <<>>
    IN  IF \E p \in 1..Len(t) : Matches(p)
        THEN LET p == CHOOSE q \in 1..Len(t) : Matches(q) /\ \A r \in 1..(q - 1) : ~Matches(r)
             IN  IF FenceGroupAt(t, p, TRUE) # <<>> THEN FenceGroupAt(t, p, TRUE)
                 ELSE FenceGroupAt(t, p, FALSE)
        ELSE <<>>

ValueError == [raised |-> "ValueError"]

\* extract_json(text): the parsed value, or ValueError.
extract_json(text) ==
    IF Strip(text) = <<>> THEN ValueError
    ELSE LET t0 == Strip(text)
             t == IF FenceGroup(t0) # <<>> THEN Strip(FenceGroup(t0)) ELSE t0
         IN  IF json_loads(t).ok THEN [raised |-> "no", val |-> json_loads(t).val]
             ELSE IF FirstToLastBrace(t) # <<>>
             THEN IF json_loads(Strip(FirstToLastBrace(t))).ok
                  THEN [raised |-> "no", val |-> json_loads(Strip(FirstToLastBrace(t))).val]
                  ELSE ValueError
             ELSE ValueError

\* The raw bodies of the string values.
StringBodies == {<<>>,
                 <<"a">>,
                 <<"{">>,
                 <<"}">>,
                 <<"\\", "\"">>,
                 <<"\\", "\\">>,
                 <<"}", "\\", "\"", "{">>,
                 <<Backquote, Backquote, Backquote, "{", "}", Backquote, Backquote, Backquote>>}

Quoted(body) == <<"\"">> \o body \o <<"\"">>
Member(v) == <<"{">> \o Quoted(<<"k">>) \o <<":">> \o v \o <<"}">>

\* Complete JSON objects.
JsonObjects ==
    {<<"{", "}">>, Member(<<"1">>), Member(<<"{", "}">>), Member(Member(Quoted(<<"}">>))),
     <<"{", " ">> \o Quoted(<<"k">>) \o <<" ", ":", " ", "1", "\n", "}">>}
    \cup {Member(Quoted(b)) : b \in StringBodies}

\* What a text holds in the place of the object: an object or nothing.
ObjectParts == JsonObjects \cup {<<>>}

\* Commentary before the object.
Leads == {<<>>, <<"H", "e", "r", "e", ":", " ">>, <<"s", "e", "e", " ", "{", "x", "}", " ">>}

\* Opening fences before the object.
FenceOpens == {<<>>, FENCE, FENCE \o JSON_TAG \o <<"\n">>}

\* Commentary after the object, a closing fence included.
Trails == {<<>>,
           <<" ", "d", "o", "n", "e">>,
           <<"\n", Backquote, Backquote, Backquote>>,
           <<"\n", Backquote, Backquote, Backquote, " ", "s", "o", " ", "{", "i", "t", "}", " ", "\"", "i", "s", "\"">>,
           <<" ", "}", " ", "\"", "q", "\"", " ", "{">>}

\* The text given to an extractor.
Text == lead \o fence_open \o obj \o trail

JsonInit ==
    /\ lead \in Leads
    /\ fence_open \in FenceOpens
    /\ obj \in ObjectParts
    /\ trail \in Trails
    /\ extractor = "none"
    /\ extracted = Unset

JsonIdle ==
    /\ lead = <<>>
    /\ fence_open = <<>>
    /\ obj = <<>>
    /\ trail = <<>>
    /\ extractor = "idle"
    /\ extracted = Unset

ExtractJson ==
    /\ extractor = "none"
    /\ extractor' = "extract_json"
    /\ extracted' = extract_json(Text)
    /\ UNCHANGED <<lead, fence_open, obj, trail>>
    /\ UNCHANGED <<valVars, pipeVars, protoVars, retrVars, fetchVars, artVars, logVars, runVars, idVars, engVars, ccVars, sessVars, gemVars>>

ExtractFirstComplete ==
    /\ extractor = "none"
    /\ extractor' = "_extract_first_complete_json_object"
    /\ extracted' = [raised |-> "no", text |-> _extract_first_complete_json_object(Text)]
    /\ UNCHANGED <<lead, fence_open, obj, trail>>
    /\ UNCHANGED <<valVars, pipeVars, protoVars, retrVars, fetchVars, artVars, logVars, runVars, idVars, engVars, ccVars, sessVars, gemVars>>

ExtractBlockQueryPlan ==
    /\ extractor = "none"
    /\ extractor' = "query_plan._extract_json_block"
    /\ extracted' = [raised |-> "no", text |-> QP_extract_json_block(Text)]
    /\ UNCHANGED <<lead, fence_open, obj, trail>>
    /\ UNCHANGED <<valVars, pipeVars, protoVars, retrVars, fetchVars, artVars, logVars, runVars, idVars, engVars, ccVars, sessVars, gemVars>>

ExtractBlockAgentReply ==
    /\ extractor = "none"
    /\ extractor' = "agent_reply._extract_json_block"
    /\ extracted' = [raised |-> "no", text |-> AR_extract_json_block(Text)]
    /\ UNCHANGED <<lead, fence_open, obj, trail>>
    /\ UNCHANGED <<valVars, pipeVars, protoVars, retrVars, fetchVars, artVars, logVars, runVars, idVars, engVars, ccVars, sessVars, gemVars>>

JsonNext == ExtractJson \/ ExtractFirstComplete \/ ExtractBlockQueryPlan \/ ExtractBlockAgentReply

\* ---------------------------------------------------------------------
\* Artifact store (run_manager.py write_json, pipeline.py _save_json)
\* ---------------------------------------------------------------------
\* Largest number of writes in one behaviour.
MaxWrites == 3

ArtifactNames == {"plan.json", "retrieval.json"}

\* The shapes of the objects given to _save_json: a pydantic model, an
\* object with plain attributes, an object whose attributes hold objects,
\* a plain list, a plain dict.
Shapes == {"pydantic", "attributes", "attributes_of_objects", "list", "dict"}
Contents == {"d1", "d2"}
Value(shape, data) == [shape |-> shape, data |-> data]
ArtifactValues == {Value(sh, d) : sh \in Shapes, d \in Contents}

\* What json.dump writes in _save_json: model_dump() or __dict__ as JSON;
\* an object inside __dict__ makes json.dump raise TypeError; anything
\* without model_dump, dict and __dict__ is written as the JSON string of
\* str(obj).
JsonOf(data) == [json |-> "value", data |-> data]
JsonStringOf(v) == [json |-> "string", repr |-> v]
TypeError == [json |-> "TypeError"]
SaveData(v) ==
    CASE v.shape \in {"pydantic", "attributes"} -> JsonOf(v.data)
      [] v.shape = "attributes_of_objects" -> TypeError
      [] OTHER -> JsonStringOf(v)

\* write_json is given JSON data (a dict or a list) and dumps it as it is.
JsonValues == {v \in ArtifactValues : v.shape \in {"list", "dict"}}
WriteData(v) == JsonOf(v.data)

\* json.load of an artifact.
ReadError == [json |-> "error"]
ReadBack(file) == IF file.present /\ file.whole THEN file.content ELSE ReadError

ArtInit ==
    /\ run_dir = [f \in ArtifactNames |-> Absent]
    /\ written = Unset

ArtIdle ==
    /\ run_dir = [f \in ArtifactNames |-> Absent]
    /\ written = [idle |-> TRUE]

Count == IF written = Unset THEN 0 ELSE written.count

\* _save_json(obj, folder, filename)
SaveJson ==
    /\ Count < MaxWrites
    /\ \E name \in ArtifactNames, v \in ArtifactValues, io \in IoOutcomes :
          LET end == IF io = "ok" /\ SaveData(v) = TypeError THEN "write_failed" ELSE io
          IN  /\ run_dir' = _save_json(run_dir, name, SaveData(v), end)
              /\ written' = [by |-> "_save_json", name |-> name, value |-> v, io |-> io,
                             before |-> run_dir[name], raised |-> FALSE, count |-> Count + 1]
    /\ UNCHANGED <<valVars, pipeVars, protoVars, retrVars, fetchVars, jsonVars, logVars, runVars, idVars, engVars, ccVars, sessVars, gemVars>>

\* write_json(path, obj): a failure is raised to the caller.
WriteJson ==
    /\ Count < MaxWrites
    /\ \E name \in ArtifactNames, v \in JsonValues, io \in IoOutcomes :
          /\ run_dir' = _save_json(run_dir, name, WriteData(v), io)
          /\ written' = [by |-> "write_json", name |-> name, value |-> v, io |-> io,
                         before |-> run_dir[name], raised |-> io # "ok",
                         count |-> Count + 1]
    /\ UNCHANGED <<valVars, pipeVars, protoVars, retrVars, fetchVars, jsonVars, logVars, runVars, idVars, engVars, ccVars, sessVars, gemVars>>

ArtNext == SaveJson \/ WriteJson

\* ---------------------------------------------------------------------
\* Event log (logger.py EventLogger, llm/gemini_client.py generate_json)
\* ---------------------------------------------------------------------
\* Largest number of log calls in one behaviour.
MaxLogCalls == 3

LogStages == {"stage4"}
LogEvents == {"query", "warn"}
\* The meta argument: None, a dict, a dict json.dumps cannot serialise.
LogMetas == {"None", "dict", "unserializable"}
Timestamps == {0, 1}

\* How one log call can end: written; mkdir or open raises; json.dumps
\* raises TypeError; the write raises after part of the line went out.
LogOutcome(meta, io) ==
    IF io = "open_failed" THEN "open_failed"
    ELSE IF meta = "unserializable" THEN "not_serializable"
    ELSE io

Record(ts, stage, event, meta) ==
    [ts |-> ts, stage |-> stage, event |-> event,
     meta |-> IF meta = "None" THEN "{}" ELSE meta]
Fragment == [fragment |-> TRUE]

\* The file after EventLogger.log, opened for writing anew instead of for
\* appending.
LogOverwriting(lines, rec, end) ==
    CASE end = "ok" -> <<rec>>
      [] end = "write_failed" -> <<Fragment>>
      [] OTHER -> lines

\* The file after EventLogger.log: opened with "a", one line written.
LogAppend(lines, rec, end) ==
    CASE end = "ok" -> Append(lines, rec)
      [] end = "write_failed" -> Append(lines, Fragment)
      [] OTHER -> lines

LogInit ==
    /\ log_file = <<>>
    /\ log_calls = <<>>
    /\ caller = Unset

LogIdle ==
    /\ log_file = <<>>
    /\ log_calls = <<>>
    /\ caller = [idle |-> TRUE]

\* EventLogger.log(stage, event, meta)
Log ==
    /\ Len(log_calls) < MaxLogCalls
    /\ \E ts \in Timestamps, st \in LogStages, ev \in LogEvents, meta \in LogMetas,
          io \in IoOutcomes :
          /\ log_file' = LogAppend(log_file, Record(ts, st, ev, meta), LogOutcome(meta, io))
          /\ log_calls' = Append(log_calls, [record |-> Record(ts, st, ev, meta),
                                            end |-> LogOutcome(meta, io)])
    /\ UNCHANGED caller
    /\ UNCHANGED <<valVars, pipeVars, protoVars, retrVars, fetchVars, jsonVars, artVars, runVars, idVars, engVars, ccVars, sessVars, gemVars>>

\* GeminiClient.generate_json: log "llm_request", generate_content, log
\* "llm_response", then for an empty text log "llm_empty_text" and raise.
\* Nothing is caught.
GenerateJsonLogged ==
    /\ Len(log_calls) + 3 <= MaxLogCalls
    /\ \E ts \in Timestamps, io1 \in IoOutcomes, io2 \in IoOutcomes, io3 \in IoOutcomes,
          r \in Responses :
          LET req == Record(ts, "stage4", "llm_request", "dict")
              resp == Record(ts, "stage4", "llm_response", "dict")
              empty == Record(ts, "stage4", "llm_empty_text", "dict")
              call1 == [record |-> req, end |-> io1]
              call2 == [record |-> resp, end |-> io2]
              call3 == [record |-> empty, end |-> io3]
              after1 == LogAppend(log_file, req, io1)
              after2 == LogAppend(after1, resp, io2)
          IN  IF io1 # "ok"
              THEN /\ log_file' = after1
                   /\ log_calls' = Append(log_calls, call1)
                   /\ caller' = [response |-> r, requested |-> FALSE, outcome |-> "raise"]
              ELSE IF r = "error"
              THEN /\ log_file' = after1
                   /\ log_calls' = Append(log_calls, call1)
                   /\ caller' = [response |-> r, requested |-> TRUE, outcome |-> "raise"]
              ELSE IF io2 # "ok"
              THEN /\ log_file' = after2
                   /\ log_calls' = log_calls \o <<call1, call2>>
                   /\ caller' = [response |-> r, requested |-> TRUE, outcome |-> "raise"]
              ELSE IF r = "empty"
              THEN /\ log_file' = LogAppend(after2, empty, io3)
                   /\ log_calls' = log_calls \o <<call1, call2, call3>>
                   /\ caller' = [response |-> r, requested |-> TRUE, outcome |-> "raise"]
              ELSE /\ log_file' = after2
                   /\ log_calls' = log_calls \o <<call1, call2>>
                   /\ caller' = [response |-> r, requested |-> TRUE, outcome |-> r]
    /\ UNCHANGED <<valVars, pipeVars, protoVars, retrVars, fetchVars, jsonVars, artVars, runVars, idVars, engVars, ccVars, sessVars, gemVars>>

LogNext == Log \/ GenerateJsonLogged

\* ---------------------------------------------------------------------
\* Run directories (run_manager.py new_run_dir, pipeline.py run_pipeline)
\* ---------------------------------------------------------------------
\* Largest number of runs in one behaviour, and the last clock second.
MaxRuns == 3
MaxSeconds == 1

SLUG_MAX_LEN == 32
\* The characters kept by re.sub(r"[^a-z0-9\-_ ]+", "", text).
SlugChars == Range(LowerCase) \cup Range(Digits) \cup {"-", "_", " "}

\* re.sub(r"\s+", "-", text)
RECURSIVE DashWhitespace(_)
DashWhitespace(t) ==
    IF t = <<>> THEN <<>>
    ELSE IF Head(t) \in Whitespace
         THEN <<"-">> \o DashWhitespace(LStrip(t))
         ELSE <<Head(t)>> \o DashWhitespace(Tail(t))

_slugify(text) ==
    LET lowered == [i \in 1..Len(Strip(text)) |-> Lower(Strip(text)[i])]
        dashed == DashWhitespace(SelectSeq(lowered, LAMBDA c : c \in SlugChars))
    IN  IF Len(dashed) > SLUG_MAX_LEN THEN SubSeq(dashed, 1, SLUG_MAX_LEN) ELSE dashed

TopicGraphRag == <<"G", "r", "a", "p", "h", " ", "R", "A", "G">>
TopicGraphRagAsked == <<"g", "r", "a", "p", "h", " ", " ", "r", "a", "g", "?">>
TopicLlm == <<"L", "L", "M", "_", "x", "\t", "1">>
Topics == {TopicGraphRag, TopicGraphRagAsked, TopicLlm}

\* What callers pass as output_dir: a string, or something that is none.
OutputDirArgs == {"outputs", "runs", "None"}

\* new_run_dir's directory: runs_dir / "<timestamp>_<slug>".
RunDirName(ts, topic) == [parent |-> "runs", ts |-> ts, slug |-> _slugify(topic)]

RunInit ==
    /\ second = 0
    /\ run_dirs = <<>>
    /\ artifacts_of = <<>>

RunIdle ==
    /\ second = -1
    /\ run_dirs = <<>>
    /\ artifacts_of = <<>>

\* One second passes on the wall clock.
SecondPasses ==
    /\ second < MaxSeconds
    /\ second' = second + 1
    /\ UNCHANGED <<run_dirs, artifacts_of>>
    /\ UNCHANGED <<valVars, pipeVars, protoVars, retrVars, fetchVars, jsonVars, artVars, logVars, idVars, engVars, ccVars, sessVars, gemVars>>

\* new_run_dir(cfg, query): mkdir(parents=True, exist_ok=True) of the
\* timestamped directory, which is returned whether or not it existed.
new_run_dir ==
    /\ Len(run_dirs) < MaxRuns
    /\ \E topic \in Topics :
          /\ run_dirs' = Append(run_dirs, RunDirName(second, topic))
          /\ artifacts_of' = artifacts_of
    /\ UNCHANGED second
    /\ UNCHANGED <<valVars, pipeVars, protoVars, retrVars, fetchVars, jsonVars, artVars, logVars, idVars, engVars, ccVars, sessVars, gemVars>>

\* run_pipeline(topic, output_dir): the artifacts go to output_dir itself
\* ("outputs" when the argument is no string), under fixed file names; a
\* directory that cannot be created ends the run with (False, "").
RunPipeline ==
    /\ Len(run_dirs) < MaxRuns
    /\ \E topic \in Topics, output_dir \in OutputDirArgs, mkdir \in {"ok", "failed"} :
          LET real_output_dir == IF output_dir = "None" THEN "outputs" ELSE output_dir
              dir == [parent |-> real_output_dir]
              run == Len(run_dirs) + 1
          IN  IF mkdir = "failed"
              THEN UNCHANGED <<run_dirs, artifacts_of>>
              ELSE /\ run_dirs' = Append(run_dirs, dir)
                   /\ artifacts_of' =
                          SelectSeq(artifacts_of, LAMBDA a : a.dir # dir)
                              \o <<[dir |-> dir, run |-> run]>>
    /\ UNCHANGED second
    /\ UNCHANGED <<valVars, pipeVars, protoVars, retrVars, fetchVars, jsonVars, artVars, logVars, idVars, engVars, ccVars, sessVars, gemVars>>

RunNext == SecondPasses \/ new_run_dir \/ RunPipeline

\* ---------------------------------------------------------------------
\* Paper ids (stages/retrieval_mock.py, stages/retrieval_live.py,
\* schemas/core.py PaperItem)
\* ---------------------------------------------------------------------
\* Largest cfg.max_papers handed to retrieval_mock.
MaxMockBudget == 13
\* retrieval_mock makes min(cfg.max_papers, 12) papers.
MOCK_PAPERS == 12

\* hashlib.sha1(text).hexdigest()[:12], taken as free of collisions: the
\* digest stands for the text it was computed from.
Sha1Prefix(text) == [sha1 |-> text]

\* _mock_paper_id(source, title, url): the hash of "source|url|title".
_mock_paper_id(source, title, url) == Sha1Prefix(<<source, url, title>>)

ValidationError == [raised |-> "ValidationError"]

\* PaperItem(**fields): paper_id and title are required fields.
PaperItem(fields) ==
    IF {"paper_id", "title"} \subseteq DOMAIN fields THEN fields ELSE ValidationError

\* expanded_queries of the plan handed to retrieval_mock.
MockQueries == {<<>>, <<"graph rag">>, <<"llm agents", "graph rag">>}

\* The records a live source answers with: title (possibly blank) and url.
LiveItem(t, u) == [title |-> t, url |-> u]
LiveItems == {LiveItem(t, u) : t \in {<<>>, TitleD, TitleE}, u \in {"", "u1"}}
LiveAnswers == {<<>>} \cup {<<a>> : a \in LiveItems} \cup {<<a, b>> : a, b \in LiveItems}

\* The out list of _search_semantic_scholar / _search_arxiv: records with a
\* blank title are skipped, the others become PaperItem(title, authors,
\* year, abstract, url, source); the first failing construction raises.
RECURSIVE LivePapers(_, _)
LivePapers(source, items) ==
    IF items = <<>> THEN <<>>
    ELSE IF Strip(Head(items).title) = <<>> THEN LivePapers(source, Tail(items))
    ELSE LET item == PaperItem([title |-> Strip(Head(items).title),
                                url |-> Head(items).url, source |-> source])
             rest == LivePapers(source, Tail(items))
         IN  IF item = ValidationError \/ rest = ValidationError
             THEN ValidationError
             ELSE <<item>> \o rest

\* The mock_papers of retrieval_mock.
MockPapers(budget, queries) ==
    LET topic == IF queries # <<>> THEN queries[1] ELSE "unknown topic"
    IN  [i \in 1..Min(budget, MOCK_PAPERS) |->
            PaperItem([paper_id |-> _mock_paper_id("mock", [n |-> i, topic |-> topic],
                                                   [mock |-> i]),
                       title |-> [n |-> i, topic |-> topic],
                       url |-> [mock |-> i], source |-> "mock"])]

IdInit == made = Unset
IdIdle == made = [idle |-> TRUE]

\* retrieval_mock(cfg, qp, logger)
retrieval_mock ==
    /\ \E budget \in 0..MaxMockBudget, queries \in MockQueries :
          made' = [by |-> "retrieval_mock", from |-> queries,
                   given |-> Min(budget, MOCK_PAPERS),
                   raised |-> FALSE, papers |-> MockPapers(budget, queries)]
    /\ UNCHANGED <<valVars, pipeVars, protoVars, retrVars, fetchVars, jsonVars, artVars, logVars, runVars, engVars, ccVars, sessVars, gemVars>>

\* The conversion of one source answer inside retrieval_live
\* (_search_semantic_scholar, _search_arxiv); nothing catches the
\* ValidationError on the way out of retrieval_live.
LiveSearch ==
    /\ \E source \in {"SemanticScholar", "arXiv"}, items \in LiveAnswers :
          LET out == LivePapers(source, items)
              titled == Len(SelectSeq(items, LAMBDA a : Strip(a.title) # <<>>))
          IN  made' = IF out = ValidationError
                      THEN [by |-> source, from |-> items, given |-> titled,
                            raised |-> TRUE, papers |-> <<>>]
                      ELSE [by |-> source, from |-> items, given |-> titled,
                            raised |-> FALSE, papers |-> out]
    /\ UNCHANGED <<valVars, pipeVars, protoVars, retrVars, fetchVars, jsonVars, artVars, logVars, runVars, engVars, ccVars, sessVars, gemVars>>

IdNext == retrieval_mock \/ LiveSearch

\* ---------------------------------------------------------------------
\* ReasoningEngine (stages/reasoning_engine.py)
\* ---------------------------------------------------------------------
\* self.MAX_RETRIES with one more refinement attempt.
MAX_RETRIES_THREE == 3
\* self.MAX_RETRIES
MAX_RETRIES == 2

\* str.upper() on one character.
Upper(c) ==
    IF \E i \in 1..Len(LowerCase) : LowerCase[i] = c
    THEN UpperCase[CHOOSE i \in 1..Len(LowerCase) : LowerCase[i] = c]
    ELSE c

\* pat in text
Contains(text, pat) == \E i \in 1..(Len(text) + 1) : StartsWithAt(text, i, pat)

\* _is_feedback_positive: empty feedback passes, as does any feedback with
\* "PASS" in its upper-cased text.
_is_feedback_positive(feedback) ==
    IF feedback = <<>> THEN TRUE
    ELSE Contains([i \in 1..Len(feedback) |-> Upper(feedback[i])], <<"P", "A", "S", "S">>)

\* What generate_text hands back for the critic prompt: the verdict PASS,
\* the same in lower case and padded, nothing, blanks, a list of
\* corrections, corrections whose wording holds "pass", and the text of
\* MockGeminiClient that stands in for a failed call.
CriticTexts ==
    {<<"P", "A", "S", "S">>,
     <<" ", "p", "a", "s", "s", "\n">>,
     <<>>,
     <<" ", "\n">>,
     <<"1", ".", " ", "f", "i", "x">>,
     <<"2", ".", " ", "b", "y", "p", "a", "s", "s">>,
     <<"A", "n", "a", "l", "y", "s", "i", "s", " ", "u", "n", "a", "v", "a", "i", "l", "a", "b", "l", "e", " ", "d", "u", "e", " ", "t", "o", " ", "A", "P", "I", " ", "l", "i", "m", "i", "t", "s", ".", " ", "P", "l", "e", "a", "s", "e", " ", "c", "h", "e", "c", "k", " ", "A", "P", "I", " ", "K", "e", "y", ".">>}

\* What generate_structured hands back: a validated result, the canned
\* result of the fallback client, or None when that client fails too.
Generated == {"result", "fallback", "None"}

EngInit ==
    /\ epc = "draft"
    /\ eattempt = 0
    /\ gens = <<>>
    /\ crits = <<>>
    /\ eret = Unset

EngIdle ==
    /\ epc = "idle"
    /\ eattempt = 0
    /\ gens = <<>>
    /\ crits = <<>>
    /\ eret = Unset

\* Phase 1 of run: the draft from generate_structured.
Draft ==
    /\ epc = "draft"
    /\ \E g \in Generated : gens' = <<g>>
    /\ epc' = "critique"
    /\ UNCHANGED <<eattempt, crits, eret>>
    /\ UNCHANGED <<valVars, pipeVars, protoVars, retrVars, fetchVars, jsonVars, artVars, logVars, runVars, idVars, ccVars, sessVars, gemVars>>

\* One pass of the refinement loop: _critique_result on the current result,
\* break and return on positive feedback, else _refine_result; after the
\* last pass the current result is returned.
RefinementAttempt ==
    /\ epc = "critique"
    /\ eattempt < MAX_RETRIES
    /\ \E text \in CriticTexts, g \in Generated :
          LET feedback == Strip(text)
          IN  /\ crits' = Append(crits, [on |-> Len(gens), feedback |-> feedback])
              /\ IF _is_feedback_positive(feedback)
                 THEN /\ eret' = [result |-> Len(gens)]
                      /\ epc' = "returned"
                      /\ UNCHANGED <<gens, eattempt>>
                 ELSE /\ gens' = Append(gens, g)
                      /\ eattempt' = eattempt + 1
                      /\ IF eattempt + 1 >= MAX_RETRIES
                         THEN eret' = [result |-> Len(gens) + 1] /\ epc' = "returned"
                         ELSE eret' = eret /\ epc' = "critique"
    /\ UNCHANGED <<valVars, pipeVars, protoVars, retrVars, fetchVars, jsonVars, artVars, logVars, runVars, idVars, ccVars, sessVars, gemVars>>

EngNext == Draft \/ RefinementAttempt

\* ---------------------------------------------------------------------
\* The cache file of one key under concurrent runs
\* (stages/retrieval_live.py _cache_get, _cache_put)
\* ---------------------------------------------------------------------
\* The runs that write the key's entry.
Writers == {1, 2}

\* The payloads fetched for the key, and their possible characters.
Payloads == {<<"a", "b">>, <<"c", "d">>, <<"c">>}
PayloadChars == {"a", "b", "c", "d"}

\* json.dumps({"_ts": ts, "payload": payload}, indent=2)
ENTRY_HEAD == <<"{", "\n", " ", " ", "\"", "_", "t", "s", "\"", ":", " ">>
ENTRY_MID == <<",", "\n", " ", " ", "\"", "p", "a", "y", "l", "o", "a", "d", "\"", ":", " ", "\"">>
ENTRY_TAIL == <<"\"", "\n", "}">>
EntryText(ts, payload) == ENTRY_HEAD \o <<ts>> \o ENTRY_MID \o payload \o ENTRY_TAIL

\* The sizes the first write can have when the text does not go out in one
\* piece.
FirstWrites == {12, 29}

\* The texts that json.loads reads as an entry, with their payloads.
EntryTexts ==
    {[text |-> EntryText(ts, pl), payload |-> pl] :
        ts \in {"1", "2"},
        pl \in {<<>>} \cup {<<a>> : a \in PayloadChars}
                      \cup {<<a, b>> : a, b \in PayloadChars}}

\* _cache_get on the file as it is at one moment: None when the file is
\* missing or json.loads raises, else the payload (the entry taken as
\* younger than the ttl).
CacheRead(file) ==
    IF file = NoFile THEN Miss
    ELSE IF \E e \in EntryTexts : e.text = file.text
    THEN [miss |-> FALSE,
          payload |-> (CHOOSE e \in EntryTexts : e.text = file.text).payload]
    ELSE Miss

\* A write of chunk at offset off: the bytes are replaced or appended, a gap
\* is filled with zero bytes.
WriteAt(text, off, chunk) ==
    [i \in 1..Max(Len(text), off + Len(chunk)) |->
        IF i > off /\ i <= off + Len(chunk) THEN chunk[i - off]
        ELSE IF i <= Len(text) THEN text[i]
        ELSE "nul"]

CcInit ==
    /\ cfile = NoFile
    /\ writers = [w \in Writers |-> [at |-> "idle"]]
    /\ cread = Unset

CcIdle ==
    /\ cfile = NoFile
    /\ writers = <<>>
    /\ cread = Unset

\* _cache_put up to the open of write_text: the entry is serialised, the
\* file is created or truncated.
CachePutOpen ==
    /\ \E w \in Writers, pl \in Payloads, first \in FirstWrites \cup {0} :
          /\ writers[w].at = "idle"
          /\ writers' = [writers EXCEPT ![w] =
                            [at |-> "open", off |-> 0, first |-> first,
                             text |-> EntryText(IF w = 1 THEN "1" ELSE "2", pl), payload |-> pl]]
          /\ cfile' = [file |-> "text", text |-> <<>>]
    /\ UNCHANGED cread
    /\ UNCHANGED <<valVars, pipeVars, protoVars, retrVars, fetchVars, jsonVars, artVars, logVars, runVars, idVars, engVars, sessVars, gemVars>>

\* One write of write_text at the writer's own file offset: the whole text,
\* or its first piece and then the rest.
CachePutWrite ==
    /\ \E w \in Writers :
          /\ writers[w].at = "open"
          /\ LET me == writers[w]
                 rest == SubSeq(me.text, me.off + 1, Len(me.text))
                 chunk == IF me.off = 0 /\ me.first > 0 /\ me.first < Len(me.text)
                          THEN SubSeq(me.text, 1, me.first) ELSE rest
             IN  /\ cfile' = [file |-> "text", text |-> WriteAt(cfile.text, me.off, chunk)]
                 /\ writers' = [writers EXCEPT ![w] =
                        IF me.off + Len(chunk) = Len(me.text)
                        THEN [at |-> "done", text |-> me.text, payload |-> me.payload]
                        ELSE [me EXCEPT !.off = me.off + Len(chunk)]]
    /\ UNCHANGED cread
    /\ UNCHANGED <<valVars, pipeVars, protoVars, retrVars, fetchVars, jsonVars, artVars, logVars, runVars, idVars, engVars, sessVars, gemVars>>

\* _cache_get by a third run, at any moment.
CacheGet ==
    /\ cread' = [got |-> CacheRead(cfile), idle |-> {w \in Writers : writers[w].at = "idle"}]
    /\ UNCHANGED <<cfile, writers>>
    /\ UNCHANGED <<valVars, pipeVars, protoVars, retrVars, fetchVars, jsonVars, artVars, logVars, runVars, idVars, engVars, sessVars, gemVars>>

CcNext == CachePutOpen \/ CachePutWrite \/ CacheGet

\* ---------------------------------------------------------------------
\* A shell session: the sources setting and the runs of retrieval_live
\* (shell.py, stages/retrieval_live.py)
\* ---------------------------------------------------------------------
\* Largest number of /run commands in one session.
MaxSessionRuns == 2

SourceSettings == {<<"b", "o", "t", "h">>, <<"a", "r", "x", "i", "v">>, <<"s", "2">>}

\* Values typed after `/set sources`.
SetArgs == SourceSettings \cup {<<"S", "2">>, <<"A", "r", "X", "i", "v">>, <<"a", "l", "l">>}

\* str.lower()
LowerText(t) == [i \in 1..Len(t) |-> Lower(t[i])]

\* Numbers of queries of a plan, and what Semantic Scholar answers to each
\* query of a run: no records, or HTTP 429. arXiv answers with no records.
SessionQueries == {1, 4}
S2Answers(n) == [1..n -> {"ok", "rate_limited"}]

\* The breaker as the previous run of the session left it.
BreakerOfLastRun(runs) ==
    IF runs = <<>> THEN [disabled |-> FALSE, count |-> 0]
    ELSE runs[Len(runs)].breaker

\* `s2_disabled = False` and `s2_429_count = 0`, locals of retrieval_live.
BreakerAtStart(runs) == [disabled |-> FALSE, count |-> 0]

\* The query loop of retrieval_live from query q on: the sources called for
\* each query and the breaker at the end. The module-level use_s2 and
\* use_arxiv are not read by the loop.
RECURSIVE QueryLoop(_, _, _, _, _)
QueryLoop(q, n, answers, breaker, sent) ==
    IF q > n THEN [sent |-> sent, breaker |-> breaker]
    ELSE LET limited == ~breaker.disabled /\ answers[q] = "rate_limited"
             count == breaker.count + (IF limited THEN 1 ELSE 0)
             after == [disabled |-> breaker.disabled \/ (limited /\ count >= S2_429_LIMIT),
                       count |-> count]
             called == (IF breaker.disabled THEN {} ELSE {"SemanticScholar"}) \cup {"arXiv"}
         IN  QueryLoop(q + 1, n, answers, after, Append(sent, called))

\* The process starts: retrieval_live is imported (use_s2, use_arxiv from
\* the environment) and RTAShell.__init__ reads the same variable.
SessInit ==
    /\ env_sources \in SourceSettings
    /\ shell_sources = LowerText(env_sources)
    /\ use_s2 = (LowerText(env_sources) \in {<<"b", "o", "t", "h">>, <<"s", "2">>})
    /\ use_arxiv = (LowerText(env_sources) \in {<<"b", "o", "t", "h">>, <<"a", "r", "x", "i", "v">>})
    /\ session = <<>>

SessIdle ==
    /\ env_sources = <<>>
    /\ shell_sources = <<>>
    /\ use_s2 = FALSE
    /\ use_arxiv = FALSE
    /\ session = <<>>

\* /set sources <value>: a value other than both, arxiv, s2 is refused.
_cmd_set ==
    /\ Len(session) < MaxSessionRuns
    /\ \E value \in SetArgs :
          shell_sources' = IF LowerText(value) \in SourceSettings
                           THEN LowerText(value) ELSE shell_sources
    /\ UNCHANGED <<env_sources, use_s2, use_arxiv, session>>
    /\ UNCHANGED <<valVars, pipeVars, protoVars, retrVars, fetchVars, jsonVars, artVars, logVars, runVars, idVars, engVars, ccVars, gemVars>>

\* /run <topic>: export the setting, then the run; its retrieval is one
\* call of retrieval_live.
_cmd_run ==
    /\ Len(session) < MaxSessionRuns
    /\ env_sources' = shell_sources
    /\ \E n \in SessionQueries : \E answers \in S2Answers(n) :
          LET run == QueryLoop(1, n, answers, BreakerAtStart(session), <<>>)
          IN  session' = Append(session, [sources |-> shell_sources, n |-> n,
                                          answers |-> answers, sent |-> run.sent,
                                          breaker |-> run.breaker])
    /\ UNCHANGED <<shell_sources, use_s2, use_arxiv>>
    /\ UNCHANGED <<valVars, pipeVars, protoVars, retrVars, fetchVars, jsonVars, artVars, logVars, runVars, idVars, engVars, ccVars, gemVars>>

SessNext == _cmd_set \/ _cmd_run

\* ---------------------------------------------------------------------
\* RealGeminiClient: retries and the mock fallback (utils/llm_client.py)
\* ---------------------------------------------------------------------
\* `max_retries = 3` of _smart_execute, with a fourth attempt.
max_retries_four == 4

\* `max_retries = 3` of _smart_execute.
max_retries == 3

ClientMethods == {"generate_text", "get_embedding", "generate_structured"}

\* What a call is about: for generate_text whether the prompt is a cluster
\* naming task, for generate_structured the schema asked for.
ClientInputs(method) ==
    CASE method = "generate_text" -> {"naming task", "other prompt"}
      [] method = "get_embedding" -> {"text"}
      [] method = "generate_structured" -> {"QueryPlan", "ReasoningResult", "other schema"}

\* How one call of func can end: it returns, or raises an exception whose
\* text holds a rate-limit mark ("429", "Quota"), an auth mark ("400",
\* "API key expired", "invalid"), both or neither.
ErrorTexts == [rate : BOOLEAN, auth : BOOLEAN]
CallOutcomes == {[ok |-> TRUE]} \cup {[ok |-> FALSE, rate |-> e.rate, auth |-> e.auth] : e \in ErrorTexts}

\* The except branch of _smart_execute: the rate-limit test comes first.
Retried(o) == ~o.ok /\ (o.rate \/ ~o.auth)
FatalAuth(o) == ~o.ok /\ ~o.rate /\ o.auth

\* What MockGeminiClient returns in place of the failed call;
\* generate_structured hands back None when it cannot build the object.
Fallbacks(method, input) ==
    CASE method = "generate_text" ->
              {IF input = "naming task" THEN "Mocked Cluster" ELSE "Analysis unavailable"}
      [] method = "get_embedding" -> {"mock vector"}
      [] method = "generate_structured" -> {"mock " \o input, "None"}

GemInit ==
    /\ gmethod \in ClientMethods
    /\ ginput \in ClientInputs(gmethod)
    /\ gattempts = <<>>
    /\ gret = Unset

GemIdle ==
    /\ gmethod = "none"
    /\ ginput = "none"
    /\ gattempts = <<>>
    /\ gret = [idle |-> TRUE]

\* One pass of `for attempt in range(max_retries)` in _smart_execute, with
\* what follows when it is the last: the result is returned, or the
\* exception (the auth error, or RuntimeError after the last attempt) is
\* caught by the method and replaced by the fallback client's output.
SmartAttempt ==
    /\ gret = Unset
    /\ Len(gattempts) < max_retries
    /\ \E o \in CallOutcomes :
          /\ gattempts' = Append(gattempts, o)
          /\ IF o.ok
             THEN gret' = [raised |-> FALSE, by |-> "model", value |-> "model " \o ginput]
             ELSE IF Retried(o) /\ Len(gattempts) + 1 < max_retries
             THEN gret' = gret
             ELSE \E v \in Fallbacks(gmethod, ginput) :
                     gret' = [raised |-> FALSE, by |-> "fallback", value |-> v]
    /\ UNCHANGED <<gmethod, ginput>>
    /\ UNCHANGED <<valVars, pipeVars, protoVars, retrVars, fetchVars, jsonVars, artVars, logVars, runVars, idVars, engVars, ccVars, sessVars>>

GemNext == SmartAttempt

\* ---------------------------------------------------------------------
\* Specifications
\* ---------------------------------------------------------------------
PipeIdle ==
    /\ pc = "idle"
    /\ started = <<>>
    /\ stage_outcome = [s \in Range(Stages) |-> "pending"]
    /\ files = [f \in FileNames |-> Absent]
    /\ papers = {}
    /\ ret = Unset
    /\ exit_code = Unset

InitValidate == ValInit /\ PipeIdle /\ ProtoIdle /\ RetrIdle /\ FetchIdle /\ JsonIdle /\ ArtIdle /\ LogIdle /\ RunIdle /\ IdIdle /\ EngIdle /\ CcIdle /\ SessIdle /\ GemIdle
SpecValidate == InitValidate /\ [][ValNext]_vars

InitPipeline == PipeInit /\ ValIdle /\ ProtoIdle /\ RetrIdle /\ FetchIdle /\ JsonIdle /\ ArtIdle /\ LogIdle /\ RunIdle /\ IdIdle /\ EngIdle /\ CcIdle /\ SessIdle /\ GemIdle
SpecPipeline == InitPipeline /\ [][PipeNext]_vars

\* run_pipeline and its caller are one thread of control: a step that can
\* be taken is taken (every external call returns or fails).
SpecPipelineLive == SpecPipeline /\ WF_vars(PipeNext)

InitProtocol == ProtoInit /\ ValIdle /\ PipeIdle /\ RetrIdle /\ FetchIdle /\ JsonIdle /\ ArtIdle /\ LogIdle /\ RunIdle /\ IdIdle /\ EngIdle /\ CcIdle /\ SessIdle /\ GemIdle
SpecProtocol == InitProtocol /\ [][ProtoNext]_vars

InitRetrieval == RetrInit /\ ValIdle /\ PipeIdle /\ ProtoIdle /\ FetchIdle /\ JsonIdle /\ ArtIdle /\ LogIdle /\ RunIdle /\ IdIdle /\ EngIdle /\ CcIdle /\ SessIdle /\ GemIdle
SpecRetrieval == InitRetrieval /\ [][RetrNext]_vars

InitFetch == FetchInit /\ ValIdle /\ PipeIdle /\ ProtoIdle /\ RetrIdle /\ JsonIdle /\ ArtIdle /\ LogIdle /\ RunIdle /\ IdIdle /\ EngIdle /\ CcIdle /\ SessIdle /\ GemIdle
SpecFetch == InitFetch /\ [][FetchNext]_vars

InitJson == JsonInit /\ ValIdle /\ PipeIdle /\ ProtoIdle /\ RetrIdle /\ FetchIdle /\ ArtIdle /\ LogIdle /\ RunIdle /\ IdIdle /\ EngIdle /\ CcIdle /\ SessIdle /\ GemIdle
SpecJson == InitJson /\ [][JsonNext]_vars

InitArtifacts ==
    ArtInit /\ ValIdle /\ PipeIdle /\ ProtoIdle /\ RetrIdle /\ FetchIdle /\ JsonIdle
        /\ LogIdle /\ RunIdle /\ IdIdle /\ EngIdle /\ CcIdle /\ SessIdle /\ GemIdle
SpecArtifacts == InitArtifacts /\ [][ArtNext]_vars

InitLog ==
    LogInit /\ ValIdle /\ PipeIdle /\ ProtoIdle /\ RetrIdle /\ FetchIdle /\ JsonIdle
        /\ ArtIdle /\ RunIdle /\ IdIdle /\ EngIdle /\ CcIdle /\ SessIdle /\ GemIdle
SpecLog == InitLog /\ [][LogNext]_vars

InitRuns ==
    RunInit /\ ValIdle /\ PipeIdle /\ ProtoIdle /\ RetrIdle /\ FetchIdle /\ JsonIdle
        /\ ArtIdle /\ LogIdle /\ IdIdle /\ EngIdle /\ CcIdle /\ SessIdle /\ GemIdle
SpecRuns == InitRuns /\ [][RunNext]_vars

InitIds ==
    IdInit /\ ValIdle /\ PipeIdle /\ ProtoIdle /\ RetrIdle /\ FetchIdle /\ JsonIdle
        /\ ArtIdle /\ LogIdle /\ RunIdle /\ EngIdle /\ CcIdle /\ SessIdle /\ GemIdle
SpecIds == InitIds /\ [][IdNext]_vars

InitEngine ==
    EngInit /\ ValIdle /\ PipeIdle /\ ProtoIdle /\ RetrIdle /\ FetchIdle /\ JsonIdle
        /\ ArtIdle /\ LogIdle /\ RunIdle /\ IdIdle /\ CcIdle /\ SessIdle /\ GemIdle
SpecEngine == InitEngine /\ [][EngNext]_vars
\* run is one thread of control: a step that can be taken is taken.
SpecEngineLive == SpecEngine /\ WF_vars(EngNext)

InitSharedCache ==
    CcInit /\ ValIdle /\ PipeIdle /\ ProtoIdle /\ RetrIdle /\ FetchIdle /\ JsonIdle
        /\ ArtIdle /\ LogIdle /\ RunIdle /\ IdIdle /\ EngIdle /\ SessIdle /\ GemIdle
SpecSharedCache == InitSharedCache /\ [][CcNext]_vars

InitSession ==
    SessInit /\ ValIdle /\ PipeIdle /\ ProtoIdle /\ RetrIdle /\ FetchIdle /\ JsonIdle /\ ArtIdle /\ LogIdle /\ RunIdle /\ IdIdle /\ EngIdle /\ CcIdle /\ GemIdle
SpecSession == InitSession /\ [][SessNext]_vars

InitGemini ==
    GemInit /\ ValIdle /\ PipeIdle /\ ProtoIdle /\ RetrIdle /\ FetchIdle /\ JsonIdle /\ ArtIdle /\ LogIdle /\ RunIdle /\ IdIdle /\ EngIdle /\ CcIdle /\ SessIdle
SpecGemini == InitGemini /\ [][GemNext]_vars

\* ---------------------------------------------------------------------
\* Claims about the orchestrator
\* ---------------------------------------------------------------------
Ended == pc \in {"returned", "raised", "exited"}
FailedStages == {s \in Range(Stages) : stage_outcome[s] = "fail"}
Position(stage) == CHOOSE i \in 1..Len(Stages) : Stages[i] = stage

\* C1: when the Reason stage of a run completed successfully, every paper id
\* cited by a claim or gap of the persisted reasoning result is a paper
\* retrieved in that run and every related cluster is a cluster of the
\* result (a result violating this makes the stage fail).
C1_PersistedReasoningGrounded ==
    (stage_outcome["Reason"] = "ok" /\ files["reasoning.json"].present
        /\ files["reasoning.json"].whole)
    => BadRefs(files["reasoning.json"].content, papers) = {}

\* C6: the stages start in the order Plan, Retrieve, Cluster, Reason, each at
\* most once and only after every earlier stage completed successfully; once
\* a stage has failed no further stage starts.
C6_StagesInOrder ==
    /\ [](/\ Len(started) <= Len(Stages)
          /\ started = SubSeq(Stages, 1, Len(started))
          /\ \A i \in 1..Len(started) : \A j \in 1..(i - 1) :
                 stage_outcome[Stages[j]] = "ok")
    /\ [][FailedStages # {} => started' = started]_vars

\* A run that ended with stage 3 failed after stages 1 and 2 succeeded.
C6_Witness ==
    /\ pc = "exited"
    /\ stage_outcome["Cluster"] = "fail"
    /\ started = <<"Plan", "Retrieve", "Cluster">>

\* C7: the status document exists from pipeline start (all pending), always
\* holds one of pending/ok/fail per stage, follows every stage transition,
\* and after a failure shows the failed stage as fail, the earlier ones ok,
\* the later ones pending, with an error record naming the failed stage.
C7_StatusDocumentTracksStages ==
    pc \notin {"call", "raised"} /\ ~(pc = "returned" /\ started = <<>>) =>
        /\ started = <<>> => files["status.json"] = init_status(files)["status.json"]
        /\ LET error == IF FailedStages = {} THEN <<>>
                        ELSE <<CHOOSE s \in FailedStages : TRUE>>
           IN  files["status.json"] =
                   update_status(files, stage_outcome, error)["status.json"]

\* C8: a failed stage makes run_pipeline raise, so the CLI exits with code 1;
\* the CLI exits with code 0 and reports the run directory only when all
\* four stages succeeded.
C8_FailureRaisesAndExitsNonZero ==
    /\ (Ended /\ FailedStages # {}) => ret = Raised
    /\ exit_code # Unset =>
          (exit_code.code = 0 <=> \A s \in Range(Stages) : stage_outcome[s] = "ok")
\* ---------------------------------------------------------------------
\* Claims about the structured-output protocol
\* ---------------------------------------------------------------------
\* The current cycle is over: the operation ended or moved to the next size.
CycleEnded == cycle # <<>> /\ ppc # "repair"
AllUnparsable == \A i \in 1..Len(cycle) : cycle[i] = "unparsable"

\* C3: in one generate+parse+repair cycle of build_agent_reply or of one input
\* size of run_reasoning_agent, a capability that only returns unparsable
\* non-empty text gets exactly 2 repair requests (3 parse attempts), never
\* more, and the cycle fails; with no input size left the operation raises.
C3_RepairTermination ==
    op \in {"run_reasoning_agent", "build_agent_reply"} =>
        /\ Len(cycle) <= 1 + 2
        /\ (CycleEnded /\ AllUnparsable) =>
              /\ Len(cycle) = 1 + 2
              /\ parses = 3
              /\ pret # "value"
              /\ ppc = "done" =>
                    /\ pret = "raise"
                    /\ op = "run_reasoning_agent" => size_idx = Len(candidate_sizes)
              /\ ppc = "generate" => size_idx <= Len(candidate_sizes)

\* run_reasoning_agent raised after the cycle of its third and last input
\* size got unparsable text three times.
C3_Witness ==
    /\ op = "run_reasoning_agent"
    /\ ppc = "done"
    /\ pret = "raise"
    /\ size_idx = 3
    /\ cycle = <<"unparsable", "unparsable", "unparsable">>

\* C4: an empty completion or a capability error, on the initial request or
\* on a repair request, ends the operation at once with an error: no later
\* request is issued and no value is returned.
C4_FatalResponseEndsOperation ==
    fatal_at > 0 =>
        /\ requests = fatal_at
        /\ ppc = "done"
        /\ pret = "raise"

\* C5: in run_reasoning_agent and build_agent_reply a completion that parses
\* but fails the schema is repaired like malformed syntax: the operation
\* fails for it only after 2 repair requests, each parsed and validated again.
C5_SchemaMismatchIsRepaired ==
    (/\ op \in {"run_reasoning_agent", "build_agent_reply"}
     /\ ppc = "done"
     /\ pret = "raise"
     /\ \A i \in 1..Len(cycle) : cycle[i] \in {"mismatch", "unparsable"})
    => (Len(cycle) = 1 + 2 /\ parses = 3)

RateLimitedCalls ==
    {i \in 1..Len(calls) :
        calls[i].source = "SemanticScholar" /\ calls[i].outcome = "rate_limited"}

Disablements(ws) == Cardinality({i \in 1..Len(ws) : ws[i].kind = "disabled"})

\* C10: within one call of retrieval_live, no Semantic Scholar call is made
\* once 3 of its calls have ended in a rate-limit error, and from then on
\* the warnings (and the returned result's warnings) hold exactly one
\* disablement warning; before that they hold none.
C10_S2DisabledAfterThreeRateLimits ==
    /\ \A i \in 1..Len(calls) :
          calls[i].source = "SemanticScholar"
              => Cardinality({j \in RateLimitedCalls : j < i}) < 3
    /\ Disablements(warnings) = (IF Cardinality(RateLimitedCalls) >= 3 THEN 1 ELSE 0)
    /\ rresult # Unset => Disablements(rresult.warnings) = Disablements(warnings)

\* Semantic Scholar was rate-limited on 3 queries, a later query was still
\* processed (by arXiv only), and the result was returned with one
\* disablement warning.
C10_Witness ==
    /\ rpc = "returned"
    /\ Cardinality(RateLimitedCalls) = 3
    /\ \E i \in 1..Len(calls) :
          /\ calls[i].source = "arXiv"
          /\ \A j \in RateLimitedCalls : calls[j].q < calls[i].q
          /\ \A k \in 1..Len(calls) :
                calls[k].source = "SemanticScholar" => calls[k].q # calls[i].q
    /\ Disablements(rresult.warnings) = 1

\* C11: a failed source call, of whatever kind, never aborts retrieval_live
\* and leaves a warning naming the source and the query.
C11_SourceFailureIsOnlyAWarning ==
    /\ rpc # "raised"
    /\ \A i \in 1..Len(calls) :
          calls[i].outcome # "ok"
              => \E w \in 1..Len(warnings) :
                    /\ warnings[w].source = calls[i].source
                    /\ warnings[w].q = calls[i].q

\* Year bounds around the configured range.
YearBounds == (MIN_YEAR - 1)..(MAX_YEAR + 1)

KeptByYear(p, lo, hi) == p.year = NoYear \/ (lo <= p.year /\ p.year <= hi)

\* C12: for any bounds, the year filter keeps exactly the records whose
\* year is unknown or within [min_year, max_year], both ends included, in
\* their order; every paper of a returned result has such a year.
C12_YearFilterBoundaries ==
    /\ \A lo, hi \in YearBounds :
          YearFilter(all_papers, lo, hi)
              = SelectSeq(all_papers, LAMBDA p : KeptByYear(p, lo, hi))
    /\ rresult # Unset =>
          \A i \in 1..Len(rresult.papers) :
              KeptByYear(rresult.papers[i], MIN_YEAR, MAX_YEAR)

\* A result that keeps a record of year min_year and one of unknown year,
\* from raw records that also held years min_year - 1 and max_year + 1.
C12_Witness ==
    /\ rpc = "returned"
    /\ \E i \in 1..Len(rresult.papers) : rresult.papers[i].year = MIN_YEAR
    /\ \E i \in 1..Len(rresult.papers) : rresult.papers[i].year = NoYear
    /\ \E i \in 1..Len(all_papers) : all_papers[i].year = MIN_YEAR - 1
    /\ \E i \in 1..Len(all_papers) : all_papers[i].year = MAX_YEAR + 1

\* Number of raw records the successful calls calls[1..k] returned.
RECURSIVE RawRecords(_)
RawRecords(k) ==
    IF k = 0 THEN 0
    ELSE RawRecords(k - 1)
         + (IF calls[k].outcome = "ok"
            THEN Len(Hits(corpus, calls[k].source, calls[k].q)) ELSE 0)

\* C13: every returned result has dedup_before equal to the number of raw
\* records of all source calls, dedup_after equal to len(papers) and at
\* most min(dedup_before, max_papers), and a warnings list.
C13_DedupCountersPopulated ==
    rresult # Unset =>
        /\ rresult.dedup_before = RawRecords(Len(calls))
        /\ rresult.dedup_after = Len(rresult.papers)
        /\ rresult.dedup_after <= Min(rresult.dedup_before, max_papers)
        /\ DOMAIN rresult.warnings = 1..Len(rresult.warnings)

\* A result returned after every source call of two or more queries failed.
C13_Witness ==
    /\ rpc = "returned"
    /\ n_queries >= 2
    /\ Len(calls) = 2 * n_queries
    /\ \A i \in 1..Len(calls) : calls[i].outcome # "ok"
    /\ rresult.dedup_before = 0
    /\ rresult.papers = <<>>

\* ---------------------------------------------------------------------
\* Claims about the fetch layer (SpecFetch)
\* ---------------------------------------------------------------------
\* C14: a search call that finds a cache entry reuses it, with no outbound
\* request, exactly when the entry's age is strictly less than the TTL; at
\* an age equal to or above the TTL it fetches, and a successful fetch
\* rewrites the entry with the fetch time.
C14_CacheReusedWhileYoungerThanTtl ==
    (last # Unset /\ last.before.file = "entry") =>
        LET age == last.at - last.before.ts
        IN  /\ last.hit <=> age < cache_ttl_hours
            /\ last.hit => last.tried = <<>>
            /\ (~last.hit /\ last.outcome = "ok" /\ now = last.at /\ cache[last.key].file = "entry")
                   => cache[last.key].ts = last.at

\* C15: a call to either source that meets a rate limit is retried with
\* exponential backoff, up to 3 attempts in all: a successful attempt ends
\* the call, and the call fails with the rate-limit error only after its
\* 3rd rate-limited attempt.
C15_RateLimitRetriedUpToThreeAttempts ==
    (last # Unset /\ ~last.hit) =>
        /\ Len(last.tried) <= 3
        /\ \A i \in 1..Len(last.tried) :
              (last.tried[i] = "rate_limited" /\ i < 3)
                  => (Len(last.tried) > i /\ last.sleeps[i] = 2 ^ (i - 1))
        /\ \A i \in 1..Len(last.tried) : last.tried[i] = "ok" => i = Len(last.tried)
        /\ last.outcome = "rate_limited"
              => (Len(last.tried) = 3 /\ last.tried[3] = "rate_limited")

\* ---------------------------------------------------------------------
\* Claims about JSON extraction (SpecJson)
\* ---------------------------------------------------------------------
\* C16: on a text made of an optional opening fence, one complete JSON
\* object and any trailing commentary, _extract_first_complete_json_object
\* returns exactly the text of the object, whatever braces, quotes and
\* escapes its strings and the commentary hold.
C16_FirstCompleteObjectIsolated ==
    (extractor = "_extract_first_complete_json_object" /\ lead = <<>> /\ obj # <<>>)
        => extracted.text = obj

\* A fenced object whose string holds braces and an escaped quote, followed
\* by commentary with braces and quotes, was given to the scanner.
C16_Witness ==
    /\ extractor = "_extract_first_complete_json_object"
    /\ lead = <<>>
    /\ fence_open = FENCE \o JSON_TAG \o <<"\n">>
    /\ obj = Member(Quoted(<<"}", "\\", "\"", "{">>))
    /\ trail = <<"\n", Backquote, Backquote, Backquote, " ", "s", "o", " ", "{", "i", "t", "}", " ", "\"", "i", "s", "\"">>
    /\ extracted.text = obj

\* C17: extract_json returns the parsed object of a text that holds a JSON
\* object (alone, fenced, or between commentary) and raises ValueError for
\* a text that holds none.
C17_ExtractJsonSupportedShapes ==
    extractor = "extract_json" =>
        IF obj # <<>>
        THEN extracted = [raised |-> "no", val |-> json_loads(obj).val]
        ELSE extracted = ValueError

\* C18: on a text that is exactly a valid JSON object, every extractor
\* yields the value that parsing the text directly yields.
C18_ExtractionNoOpOnCleanJson ==
    (extractor \notin {"none", "idle"} /\ obj # <<>>
        /\ lead = <<>> /\ fence_open = <<>> /\ trail = <<>>)
    => IF extractor = "extract_json"
       THEN extracted = [raised |-> "no", val |-> json_loads(Text).val]
       ELSE json_loads(extracted.text) = json_loads(Text)

\* ---------------------------------------------------------------------
\* Further claims about the structured-output protocol (SpecProtocol)
\* ---------------------------------------------------------------------
\* C19: the input sizes of the cycles of run_reasoning_agent are at most 3,
\* strictly decreasing and never above the number of papers; a new cycle
\* begins only when the previous one has used its repairs; with 20 papers
\* or fewer there is one cycle only.
C19_SizesStrictlyDecreasing ==
    op = "run_reasoning_agent" =>
        /\ Len(sizes_used) <= 3
        /\ \A i, j \in 1..Len(sizes_used) : i < j => sizes_used[i] > sizes_used[j]
        /\ \A i \in 1..Len(sizes_used) : sizes_used[i] <= n_papers
        /\ n_papers <= 20 => Len(sizes_used) <= 1
        /\ (Len(sizes_used) > 1 /\ ppc = "repair" /\ Len(cycle) = 1) => requests >= 4

\* ---------------------------------------------------------------------
\* Claims about the artifact store (SpecArtifacts)
\* ---------------------------------------------------------------------
\* C20: after a write of a value V under a name that met no disk failure,
\* reading the artifact back gives V, whatever was under the name before
\* and whatever the shape of V; writing V again leaves the same content.
C20_ArtifactRoundTrip ==
    (written # Unset /\ written.io = "ok") =>
        /\ ReadBack(run_dir[written.name]) = JsonOf(written.value.data)
        /\ (written.before.present /\ written.before.whole
              /\ written.before.content = JsonOf(written.value.data))
               => run_dir[written.name] = written.before

\* ---------------------------------------------------------------------
\* Claims about the event log (SpecLog)
\* ---------------------------------------------------------------------
\* The records of the log calls that wrote their line, in call order.
WrittenRecords ==
    LET done == SelectSeq(log_calls, LAMBDA c : c.end = "ok")
    IN  [i \in 1..Len(done) |-> done[i].record]

\* C21: the complete records of the log are exactly those of the log calls
\* that wrote, one per call and in call order, each with ts, stage, event
\* and meta; a log call leaves every earlier line where and as it was.
C21_LogAppendOnly ==
    /\ [](/\ SelectSeq(log_file, LAMBDA l : l # Fragment) = WrittenRecords
          /\ \A i \in 1..Len(log_file) :
                log_file[i] # Fragment
                    => DOMAIN log_file[i] = {"ts", "stage", "event", "meta"})
    /\ [][/\ Len(log_file') >= Len(log_file)
          /\ SubSeq(log_file', 1, Len(log_file)) = log_file]_vars

\* Three log calls wrote three records.
C21_Witness ==
    /\ Len(log_calls) = 3
    /\ Len(log_file) = 3
    /\ \A i \in 1..3 : log_calls[i].end = "ok" /\ log_file[i] = log_calls[i].record
    /\ log_file[1] # log_file[2]

\* C22: a log call that fails does not raise into its caller: a generation
\* request ends as it would have ended with a working log.
C22_LogFailureNeverPropagates ==
    (caller # Unset /\ caller # [idle |-> TRUE]) =>
        /\ caller.requested
        /\ caller.outcome = generate_json(caller.response)

\* ---------------------------------------------------------------------
\* Claims about run directories (SpecRuns)
\* ---------------------------------------------------------------------
\* C23: no two runs have the same run directory, so every run's artifacts
\* stay in its directory.
C23_RunDirectoriesDistinct ==
    /\ \A i, j \in 1..Len(run_dirs) : i # j => run_dirs[i] # run_dirs[j]
    /\ \A i \in 1..Len(run_dirs) :
          DOMAIN run_dirs[i] = {"parent"}
              => \E k \in 1..Len(artifacts_of) :
                    artifacts_of[k] = [dir |-> run_dirs[i], run |-> i]

\* ---------------------------------------------------------------------
\* Claims about the persisted run layout (SpecPipeline)
\* ---------------------------------------------------------------------
\* C24: when run_pipeline returns success the four stage artifacts, the
\* report and the status document are whole files of the run directory, and
\* a stage counts as completed only if its artifact was written.
C24_SuccessMeansArtifactsOnDisk ==
    LET artifact == [Plan |-> "plan.json", Retrieve |-> "retrieval.json",
                     Cluster |-> "structuring.json", Reason |-> "reasoning.json"]
        whole(f) == files[f].present /\ files[f].whole
    IN  /\ (ret # Unset /\ ~ret.raised /\ ret.success) =>
              /\ \A st \in Range(Stages) : whole(artifact[st])
              /\ whole("report.md")
              /\ whole("status.json")
        /\ \A st \in Range(Stages) : stage_outcome[st] = "ok" => whole(artifact[st])

\* ---------------------------------------------------------------------
\* Claims about paper ids (SpecIds)
\* ---------------------------------------------------------------------
\* C25: a retrieval call turns its titled records into papers that each
\* carry a paper_id, the hash of the paper's (source, url, title), and no two
\* papers of the call have the same paper_id; this for the live sources as
\* for the mock.
C25_PaperIdsDeterministicAndUnique ==
    made # Unset =>
        /\ ~made.raised
        /\ Len(made.papers) = made.given
        /\ \A i \in 1..Len(made.papers) :
              /\ "paper_id" \in DOMAIN made.papers[i]
              /\ made.papers[i].paper_id =
                    Sha1Prefix(<<made.papers[i].source, made.papers[i].url,
                                 made.papers[i].title>>)
        /\ \A i, j \in 1..Len(made.papers) :
              i # j => made.papers[i].paper_id # made.papers[j].paper_id

\* ---------------------------------------------------------------------
\* Claims about the reasoning engine (SpecEngine, SpecEngineLive)
\* ---------------------------------------------------------------------
\* C26: the result run returns is the one the last critique read, and that
\* critique was positive.
C26_ReturnedResultPassedCritique ==
    eret # Unset =>
        /\ crits # <<>>
        /\ crits[Len(crits)].on = eret.result
        /\ _is_feedback_positive(crits[Len(crits)].feedback)

\* The number of negative critiques at the head of cs.
RECURSIVE LeadingNegatives(_)
LeadingNegatives(cs) ==
    IF cs = <<>> \/ _is_feedback_positive(Head(cs).feedback) THEN 0
    ELSE 1 + LeadingNegatives(Tail(cs))

\* C27: run comes to its return; no critique follows a positive one; there
\* are at most 3 generations and 2 critiques; and at the return the
\* regenerations number as many as the negative critiques before the first
\* positive one, at most 2.
C27_RefinementBoundedAndStopsAtFirstPass ==
    /\ [](/\ Len(gens) <= 1 + 2
          /\ Len(crits) <= 2
          /\ \A i \in 1..(Len(crits) - 1) : ~_is_feedback_positive(crits[i].feedback)
          /\ eret # Unset =>
                /\ eret.result = Len(gens)
                /\ Len(gens) - 1 = Min(LeadingNegatives(crits), 2))
    /\ <>(epc = "returned" /\ eret # Unset)

\* Corrections once, then PASS: one regeneration, two critiques.
C27_Witness ==
    /\ epc = "returned"
    /\ Len(crits) = 2
    /\ crits[1].feedback = <<"1", ".", " ", "f", "i", "x">>
    /\ crits[2].feedback = <<"P", "A", "S", "S">>
    /\ Len(gens) = 2
    /\ eret = [result |-> 2]

\* ---------------------------------------------------------------------
\* Claims about the cache under concurrent runs (SpecSharedCache)
\* ---------------------------------------------------------------------
\* C28: a _cache_get that runs while other runs write the key returns a miss
\* or the whole payload of one of the writers, and once the writers are done
\* the file is the complete entry of one of them.
C28_ConcurrentCacheReadsWholeEntries ==
    /\ cread # Unset =>
          \/ cread.got = Miss
          \/ \E w \in Writers \ cread.idle : cread.got.payload = writers[w].payload
    /\ (\A w \in Writers : writers[w].at = "done") =>
          \E w \in Writers : cfile.text = writers[w].text

\* ---------------------------------------------------------------------
\* Claims about the sources' circuit breakers (SpecRetrieval)
\* ---------------------------------------------------------------------
\* C29: within one call of retrieval_live, arXiv is not called once 3 of its
\* calls have ended in a rate-limit error, and from then on the warnings
\* hold exactly one disablement warning for arXiv; before that none.
C29_ArxivDisabledAfterThreeRateLimits ==
    LET limited == {i \in 1..Len(calls) :
                       calls[i].source = "arXiv" /\ calls[i].outcome = "rate_limited"}
        disabled == {i \in 1..Len(warnings) :
                        warnings[i].kind = "disabled" /\ warnings[i].source = "arXiv"}
    IN  /\ \A i \in 1..Len(calls) :
              calls[i].source = "arXiv" => Cardinality({j \in limited : j < i}) < 3
        /\ Cardinality(disabled) = (IF Cardinality(limited) >= 3 THEN 1 ELSE 0)

\* ---------------------------------------------------------------------
\* Claims about the per-query limit (SpecRetrieval)
\* ---------------------------------------------------------------------
\* C30: the limit handed to every source call is max_papers div max(1, n)
\* clamped to [10, 25] and then capped at 20, so it lies in [10, 20]; with
\* no query it is still computed and no source is called.
C30_PerQueryLimitClampedAndCapped ==
    LET share == max_papers \div (IF n_queries = 0 THEN 1 ELSE n_queries)
        clamped == IF share < 10 THEN 10 ELSE IF share > 25 THEN 25 ELSE share
        capped == IF clamped > 20 THEN 20 ELSE clamped
    IN  /\ rpc \notin {"start", "idle"} =>
              /\ per_query_limit = capped
              /\ 10 <= per_query_limit /\ per_query_limit <= 20
        /\ \A i \in 1..Len(calls) : calls[i].limit = capped
        /\ n_queries = 0 => calls = <<>>

\* A budget of 30 shared by 2 queries: both sources were called with 15.
C30_Witness ==
    /\ rpc = "returned"
    /\ max_papers = 30
    /\ n_queries = 2
    /\ per_query_limit = 15
    /\ \E i, j \in 1..Len(calls) :
          /\ calls[i].source = "SemanticScholar" /\ calls[i].limit = 15
          /\ calls[j].source = "arXiv" /\ calls[j].limit = 15

\* ---------------------------------------------------------------------
\* Claims about the early stop of the query loop (SpecRetrieval)
\* ---------------------------------------------------------------------
\* Number of source calls made for the queries 1..k.
CallsUpToQuery(k) == Cardinality({i \in 1..Len(calls) : calls[i].q <= k})

\* C31: the source calls follow the plan order of the queries (Semantic
\* Scholar before arXiv within a query); no call is made for a query when
\* the raw records accumulated after the query before it number at least
\* 4 times max_papers; and dedup_before counts every accumulated record.
C31_EarlyStopAtFourTimesBudget ==
    /\ \A i, j \in 1..Len(calls) :
          i < j => \/ calls[i].q < calls[j].q
                   \/ /\ calls[i].q = calls[j].q
                      /\ calls[i].source = "SemanticScholar"
                      /\ calls[j].source = "arXiv"
    /\ \A i \in 1..Len(calls) :
          calls[i].q > 1 => RawRecords(CallsUpToQuery(calls[i].q - 1)) < 4 * max_papers
    /\ rresult # Unset =>
          /\ Len(all_papers) = RawRecords(Len(calls))
          /\ rresult.dedup_before = Len(all_papers)

\* With a budget of 2, the second of at least three queries brought the raw
\* records to 8: the result was returned without a call for the third.
C31_Witness ==
    /\ rpc = "returned"
    /\ max_papers = 2
    /\ n_queries >= 3
    /\ qi = 2
    /\ \A i \in 1..Len(calls) : calls[i].q <= 2
    /\ Len(all_papers) >= 8
    /\ RawRecords(CallsUpToQuery(1)) < 8
    /\ rresult.dedup_before = Len(all_papers)

\* ---------------------------------------------------------------------
\* Claims about the order and length of the papers list (SpecRetrieval)
\* ---------------------------------------------------------------------
\* The records accepted by deduplication that pass the year filter, in the
\* order of their acceptance.
Accepted == YearFilter(Dedup(all_papers, <<>>, max_papers * UNIQ_FACTOR), MIN_YEAR, MAX_YEAR)

\* Place of a record in the order of acceptance (0 when it was not accepted).
AcceptedAt(p) ==
    IF \E i \in 1..Len(Accepted) : Accepted[i] = p
    THEN CHOOSE i \in 1..Len(Accepted) : Accepted[i] = p
    ELSE 0

\* p comes before u in the order "abstract first, then order of acceptance".
SortsBefore(p, u) ==
    \/ p.abstract /\ ~u.abstract
    \/ p.abstract = u.abstract /\ AcceptedAt(p) < AcceptedAt(u)

\* C32: in the papers list of a returned result, every paper with an
\* abstract precedes every paper without one, papers of the same group are
\* in their order of acceptance, and the list is the first max_papers
\* elements of that ordering of the accepted records.
C32_AbstractFirstStableTruncated ==
    rresult # Unset =>
        LET ps == rresult.papers
        IN  /\ \A i, j \in 1..Len(ps) :
                  i < j => /\ ~(~ps[i].abstract /\ ps[j].abstract)
                           /\ SortsBefore(ps[i], ps[j])
            /\ \A i \in 1..Len(ps) : AcceptedAt(ps[i]) > 0
            /\ Len(ps) = Min(max_papers, Len(Accepted))
            /\ Len(ps) <= max_papers
            /\ \A k \in 1..Len(Accepted) :
                  (\A i \in 1..Len(ps) : ps[i] # Accepted[k])
                      => \A i \in 1..Len(ps) : SortsBefore(ps[i], Accepted[k])

\* Three records were accepted, the second without an abstract; the budget
\* of 2 kept the first and the third, both with an abstract.
C32_Witness ==
    /\ rpc = "returned"
    /\ max_papers = 2
    /\ Len(Accepted) = 3
    /\ Accepted[1].abstract /\ ~Accepted[2].abstract /\ Accepted[3].abstract
    /\ rresult.papers = <<Accepted[1], Accepted[3]>>

\* ---------------------------------------------------------------------
\* Claims about cluster ids (SpecValidate)
\* ---------------------------------------------------------------------
\* C33: a ReasoningResult that passes validation holds no two clusters with
\* the same cluster_id.
C33_ValidatedClusterIdsDistinct ==
    (verdict # Unset /\ verdict.ok) =>
        \A i, j \in 1..Len(result.clusters) :
            i # j => result.clusters[i] # result.clusters[j]

\* ---------------------------------------------------------------------
\* Claims about the sources setting and the breaker across runs (SpecSession)
\* ---------------------------------------------------------------------
\* C34: a run started with the setting arxiv sends no query to Semantic
\* Scholar, one started with s2 sends none to arXiv, and one started with
\* both sends every query to both sources (to arXiv alone once Semantic
\* Scholar is disabled); the setting in force is the one at the /run.
C34_SourcesSettingHonoured ==
    \A r \in 1..Len(session) :
        \A q \in 1..Len(session[r].sent) :
            /\ session[r].sources = <<"a", "r", "x", "i", "v">>
                  => "SemanticScholar" \notin session[r].sent[q]
            /\ session[r].sources = <<"s", "2">>
                  => "arXiv" \notin session[r].sent[q]
            /\ session[r].sources = <<"b", "o", "t", "h">>
                  => \/ session[r].sent[q] = {"SemanticScholar", "arXiv"}
                     \/ session[r].sent[q] = {"arXiv"}

\* The queries of run r on which Semantic Scholar answered HTTP 429.
LimitedBefore(r, q) ==
    Cardinality({k \in 1..(q - 1) :
                    /\ "SemanticScholar" \in session[r].sent[k]
                    /\ session[r].answers[k] = "rate_limited"})

\* C36: in every run of a session Semantic Scholar is called for a query
\* unless 3 earlier queries of that same run were rate-limited, whatever
\* happened in the runs before; in particular it is called for the first
\* query of every run, and arXiv is called for every query.
C36_BreakerIsRunScoped ==
    \A r \in 1..Len(session) :
        /\ Len(session[r].sent) = session[r].n
        /\ "SemanticScholar" \in session[r].sent[1]
        /\ \A q \in 1..session[r].n :
              /\ "SemanticScholar" \in session[r].sent[q] <=> LimitedBefore(r, q) < 3
              /\ "arXiv" \in session[r].sent[q]

\* The first run disabled Semantic Scholar after 3 rate-limited queries and
\* skipped it for the fourth; the second run called it again.
C36_Witness ==
    /\ Len(session) = 2
    /\ session[1].breaker.disabled
    /\ session[1].sent[4] = {"arXiv"}
    /\ "SemanticScholar" \in session[2].sent[1]
    /\ session[2].answers[1] = "rate_limited"
    /\ session[2].breaker = [disabled |-> FALSE, count |-> 1]

\* ---------------------------------------------------------------------
\* Claims about the artifacts of a failed run (SpecPipeline)
\* ---------------------------------------------------------------------
\* C35: the step in which a stage fails leaves every artifact that was on
\* disk before it as it was, and so does every step after run_pipeline has
\* ended: a failed run neither deletes nor rewrites an artifact.
C35_NoRollbackOnFailure ==
    [][ ( \/ Ended
          \/ (ret' # Unset /\ (ret'.raised \/ ~ret'.success)) )
            => \A f \in FileNames : files[f].present => files'[f] = files[f] ]_vars

\* Stage 3 failed after stages 1 and 2 had written their artifacts, which
\* are still whole on disk when the caller has finished.
C35_Witness ==
    /\ pc = "exited"
    /\ ret = Returned(FALSE, "")
    /\ stage_outcome["Cluster"] = "fail"
    /\ files["plan.json"] = Written([plan |-> TRUE])
    /\ files["retrieval.json"].present /\ files["retrieval.json"].whole
    /\ ~files["structuring.json"].present

C38_RealClientNeverRaises ==
    /\ Len(gattempts) <= 3
    /\ \A i \in 1..(Len(gattempts) - 1) :
          ~gattempts[i].ok /\ ~(gattempts[i].auth /\ ~gattempts[i].rate)
    /\ gret # Unset /\ gmethod # "none" =>
          /\ ~gret.raised
          /\ gattempts # <<>>
          /\ LET final == gattempts[Len(gattempts)]
             IN  /\ final.ok => gret.by = "model"
                 /\ ~final.ok =>
                       /\ gret.by = "fallback"
                       /\ gret.value \in Fallbacks(gmethod, ginput)
                       /\ (final.rate => Len(gattempts) = 3)
    /\ gret = Unset /\ gattempts # <<>> =>
          /\ Len(gattempts) < 3
          /\ ~gattempts[Len(gattempts)].ok

\* generate_structured was rate-limited on all 3 attempts and handed back
\* the mock object.
C38_Witness ==
    /\ gmethod = "generate_structured"
    /\ ginput = "ReasoningResult"
    /\ Len(gattempts) = 3
    /\ \A i \in 1..3 : ~gattempts[i].ok /\ gattempts[i].rate /\ ~gattempts[i].auth
    /\ gret = [raised |-> FALSE, by |-> "fallback", value |-> "mock ReasoningResult"]

\* ---------------------------------------------------------------------
\* Claims about termination of a run (SpecPipelineLive)
\* ---------------------------------------------------------------------
\* C39, as stated: run_pipeline ends in a success or in a failed stage.
C39_EndsInSuccessOrFailedStage ==
    ret # Unset => /\ ~ret.raised
                   /\ ret.success \/ FailedStages # {}

\* C39, amended: every run comes to its end; no stage is started twice and
\* at most the four stages are started; and the run ends in a success with
\* every stage completed, in a failure with one failed stage, or before the
\* first stage (the output directory cannot be made: failure; the client
\* cannot be built: a raise).
C39_RunTerminates ==
    /\ [](/\ Len(started) <= 4
          /\ \A i, j \in 1..Len(started) : i # j => started[i] # started[j]
          /\ ret # Unset =>
                \/ /\ ~ret.raised /\ ret.success
                   /\ \A st \in Range(Stages) : stage_outcome[st] = "ok"
                \/ /\ ~ret.raised /\ ~ret.success
                   /\ Cardinality(FailedStages) = 1
                \/ /\ started = <<>>
                   /\ FailedStages = {})
    /\ <>(Ended /\ ret # Unset)

\* A run that went through all four stages and ended with the last failed.
C39_Witness ==
    /\ pc = "exited"
    /\ started = <<"Plan", "Retrieve", "Cluster", "Reason">>
    /\ stage_outcome["Reason"] = "fail"
    /\ ret = Returned(FALSE, "")

\* ---------------------------------------------------------------------
\* Claims about cache writes (SpecFetch)
\* ---------------------------------------------------------------------
\* C40: the program writes the cache entry of a key only in a search call
\* for that key that missed the cache and whose fetch succeeded, and then it
\* writes what was fetched with the fetch time; a call that hits the cache
\* makes no request and a call whose fetch fails writes nothing; an
\* unreadable entry is a miss, followed by a fetch, not an error.
C40_CacheWrittenOnlyAfterSuccessfulFetch ==
    /\ [](last # Unset =>
             /\ last.hit => last.tried = <<>> /\ last.before.file = "entry"
             /\ last.before = CorruptFile => ~last.hit /\ last.tried # <<>>
             /\ last.before = NoFile => ~last.hit /\ last.tried # <<>>)
    /\ [][ \A k \in CacheKeys :
              (cache'[k] # cache[k] /\ cache'[k] # CorruptFile) =>
                  /\ last'.key = k
                  /\ ~last'.hit
                  /\ last'.outcome = "ok"
                  /\ last'.before = cache[k]
                  /\ cache'[k] = Entry(now, last'.data) ]_vars
    /\ [][ (last' # last /\ (last'.hit \/ last'.outcome # "ok")) => cache' = cache ]_vars

\* A damaged entry was taken for a miss: the fetch went out, succeeded, and
\* the entry was rewritten with what it brought.
C40_Witness ==
    /\ last # Unset
    /\ last.before = CorruptFile
    /\ ~last.hit
    /\ last.outcome = "ok"
    /\ now = last.at
    /\ cache[last.key] = Entry(last.at, last.data)
====
